---- MODULE Spec2Model ----
(***************************************************************************)
(* Chemical Saver - dosage optimization backend.                           *)
(*                                                                         *)
(* A model of backend/lambda_function.py: the ChemicalOptimizer pipeline   *)
(* (validate_and_filter, calculate_water_volume,                           *)
(* calculate_required_chemical_volume, apply_constraints,                  *)
(* calculate_financial_impact, calculate_current_ppm, determine_status,    *)
(* optimize), the WellSettings loader and the state an optimizer carries   *)
(* from one optimize() call to the next.                                   *)
(*                                                                         *)
(* Python floats are modelled as decimal floating point numbers with six   *)
(* significant digits, every operation rounded to nearest: a number is a   *)
(* record [m, e] standing for m * 10^e, with m = 0 (and e = 0) or          *)
(* 10^5 <= |m| < 10^6.  The representation is canonical, so two numbers    *)
(* are equal iff their records are.  float('nan') is the record NaN: every *)
(* operation on it gives NaN and every comparison with it is false.        *)
(* Python's None is the empty tuple                                        *)
(* <<>>; an optional float is None or the float, an optional integer (the  *)
(* last-seen timestamp) is None or <<t>>.                                  *)
(***************************************************************************)
EXTENDS Integers, Sequences, FiniteSets, TLC

\* -------------------------------------------------------------------------
\* Floating point arithmetic
\* -------------------------------------------------------------------------

MantLo == 10^5
MantHi == 10^6

Abs(n) == IF n < 0 THEN -n ELSE n

Sgn(n) == IF n < 0 THEN -1 ELSE IF n > 0 THEN 1 ELSE 0

Zero == [m |-> 0, e |-> 0]

\* float('nan'), not a number.
NaN == [nan |-> TRUE]

IsNaN(a) == DOMAIN a = {"nan"}

\* The number of digits m > 0 lacks to have six, or has beyond six.
Lacking(m) ==
    IF m >= 100000 THEN 0 ELSE IF m >= 10000 THEN 1 ELSE IF m >= 1000 THEN 2
    ELSE IF m >= 100 THEN 3 ELSE IF m >= 10 THEN 4 ELSE 5

Excess(m) ==
    IF m < 1000000 THEN 0 ELSE IF m < 10000000 THEN 1
    ELSE IF m < 100000000 THEN 2 ELSE IF m < 1000000000 THEN 3 ELSE 4

\* 0 < m < 10^5: shifted left (exactly) by the k digits it lacks.
Shifted(m, e, k) == [m |-> m * 10^k, e |-> e - k]

ScaleUp(m, e) == Shifted(m, e, Lacking(m))

\* m >= 10^6: rounded to six digits, half away from zero.  Rounding up may
\* carry into a seventh digit.
Carried(q, e) ==
    IF q >= MantHi THEN [m |-> q \div 10, e |-> e + 1] ELSE [m |-> q, e |-> e]

Rounded(m, e, k) == Carried((m + 10^k \div 2) \div 10^k, e + k)

RoundOff(m, e) == Rounded(m, e, Excess(m))

\* The float nearest to a * 10^e for a > 0, and to n * 10^e.
Magnitude(a, e) == IF a >= MantHi THEN RoundOff(a, e) ELSE ScaleUp(a, e)

Signed(s, r) == [m |-> s * r.m, e |-> r.e]

Norm(n, e) == IF n = 0 THEN Zero ELSE Signed(Sgn(n), Magnitude(Abs(n), e))

\* float(n) of an integer n, and the decimal literal n * 10^(-k).
F(n) == Norm(n, 0)

Dec(n, k) == Norm(n, -k)

FNeg(a) == IF IsNaN(a) THEN NaN ELSE [m |-> -a.m, e |-> a.e]

FAbs(a) == IF IsNaN(a) THEN NaN ELSE [m |-> Abs(a.m), e |-> a.e]

\* a * b.  The 12-digit product is formed in two halves to stay within
\* TLC's 32-bit integers; its low three digits cannot change the rounding.
FMul(a, b) ==
    IF IsNaN(a) \/ IsNaN(b) THEN NaN
    ELSE IF a.m = 0 \/ b.m = 0 THEN Zero
    ELSE LET ma == Abs(a.m)
             mb == Abs(b.m)
             t  == ma * (mb \div 1000) + (ma * (mb % 1000)) \div 1000
         IN  Norm(Sgn(a.m) * Sgn(b.m) * t, a.e + b.e + 3)

\* a / b for b # 0 (Python raises ZeroDivisionError for b = 0; every
\* division of the pipeline modelled here is guarded or has a nonzero
\* divisor).  Long division in three steps (3, 3 and 1 digits), each within
\* TLC's 32-bit integers; the remainder cannot change the rounding.
FDiv(a, b) ==
    IF IsNaN(a) \/ IsNaN(b) THEN NaN
    ELSE IF a.m = 0 THEN Zero
    ELSE LET ma == Abs(a.m)
             mb == Abs(b.m)
             n1 == ma * 1000
             n2 == (n1 % mb) * 1000
             n3 == (n2 % mb) * 10
             q  == (n1 \div mb) * 10000 + (n2 \div mb) * 10 + n3 \div mb
         IN  Norm(Sgn(a.m) * Sgn(b.m) * q, a.e - b.e - 7)

\* a + b: the operand of smaller exponent is aligned to the other, which
\* keeps three guard digits.
FAdd(a, b) ==
    IF IsNaN(a) \/ IsNaN(b) THEN NaN
    ELSE IF a.m = 0 THEN b
    ELSE IF b.m = 0 THEN a
    ELSE LET hi == IF a.e >= b.e THEN a ELSE b
             lo == IF a.e >= b.e THEN b ELSE a
             d  == hi.e - lo.e
             g  == IF d < 3 THEN d ELSE 3
         IN  IF d > 8 THEN hi
             ELSE Norm(hi.m * 10^g + Sgn(lo.m) * (Abs(lo.m) \div 10^(d - g)),
                       hi.e - g)

FSub(a, b) == FAdd(a, FNeg(b))

\* round(a, ndigits): the digits beyond ndigits decimal places are dropped,
\* to nearest, a tie going to the even digit.
HalfEven(q, r, half) ==
    IF r > half \/ (r = half /\ q % 2 = 1) THEN q + 1 ELSE q

Dropped(m, k) == HalfEven(m \div 10^k, m % 10^k, 10^k \div 2)

Round(a, ndigits) ==
    IF IsNaN(a) THEN NaN
    ELSE IF a.e >= -ndigits THEN a
    ELSE IF -ndigits - a.e > 6 THEN Zero
    ELSE Norm(Sgn(a.m) * Dropped(Abs(a.m), -ndigits - a.e), -ndigits)

FLt(a, b) ==
    IF IsNaN(a) \/ IsNaN(b) THEN FALSE
    ELSE IF Sgn(a.m) # Sgn(b.m) THEN Sgn(a.m) < Sgn(b.m)
    ELSE IF a.m = 0 THEN FALSE
    ELSE IF a.m > 0 THEN a.e < b.e \/ (a.e = b.e /\ a.m < b.m)
    ELSE a.e > b.e \/ (a.e = b.e /\ a.m < b.m)

FLe(a, b) == ~IsNaN(a) /\ ~IsNaN(b) /\ (a = b \/ FLt(a, b))

FGt(a, b) == FLt(b, a)

FGe(a, b) == FLe(b, a)

\* max(a, b) and min(a, b): the first argument unless the second is
\* greater, or less.
FMax(a, b) == IF FGt(b, a) THEN b ELSE a

FMin(a, b) == IF FLt(b, a) THEN b ELSE a

\* -------------------------------------------------------------------------
\* Constants and data models
\* -------------------------------------------------------------------------

None == <<>>

\* StatusFlag
OPTIMAL      == "OPTIMAL"
OVER_DOSING  == "OVER_DOSING"
UNDER_DOSING == "UNDER_DOSING"
PUMP_OFF     == "PUMP_OFF"
ERROR        == "ERROR"
NO_DATA      == "NO_DATA"

StatusFlag == {OPTIMAL, OVER_DOSING, UNDER_DOSING, PUMP_OFF, ERROR, NO_DATA}

\* DefaultSettings
DefaultSettings ==
    [TARGET_PPM       |-> 200,
     CHEMICAL_DENSITY |-> F(1),
     ACTIVE_INTENSITY |-> F(100),
     COST_PER_GALLON  |-> F(10),
     MIN_PUMP_RATE    |-> Dec(5, 1),
     MAX_PUMP_RATE    |-> F(50)]

\* Conversion constants
WATER_LBS_PER_BBL == F(350)
KG_TO_LBS         == Dec(220462, 5)
LITERS_PER_GALLON == Dec(378541, 5)
PPM_DIVISOR       == 1000000

\* Safety thresholds
SPIKE_THRESHOLD_PERCENT      == 500
NO_DATA_TIMEOUT_SECONDS      == 300
UNDER_DOSE_THRESHOLD_PERCENT == 10

\* ProductionData(...) as the HTTP layer builds it from a record: the fields
\* are taken as given and pump_status is derived from the flow rate.
ProductionData(timestamp, gross_fluid_rate, water_cut, current_injection_rate) ==
    [timestamp              |-> timestamp,
     gross_fluid_rate       |-> gross_fluid_rate,
     water_cut              |-> water_cut,
     current_injection_rate |-> current_injection_rate,
     pump_status            |-> FGt(gross_fluid_rate, Zero)]

\* An exception in flight, in place of the value the raising call would
\* have returned.
ZeroDivisionError == [raised |-> "ZeroDivisionError"]
TypeError         == [raised |-> "TypeError"]
ValueError        == [raised |-> "ValueError"]

Raised(value) == DOMAIN value = {"raised"}

\* A raw value, as a stored mapping or a record carries it, is a number (a
\* float), a text that is not a number ([text |-> ...]) or null (None).
Number(value) == DOMAIN value = {"m", "e"}

\* What float(value) and int(value) raise for a raw value not a number.
ConversionError(value) == IF value = None THEN TypeError ELSE ValueError

\* int(a) of a float: the digits after the point are dropped.
Trunc(a) ==
    IF a.e >= 0 THEN a.m * 10^a.e
    ELSE IF a.e < -6 THEN 0
    ELSE Sgn(a.m) * (Abs(a.m) \div 10^(-a.e))

\* dict.get(key, default) on a raw mapping (a function on the keys present).
Get(mapping, key, default) ==
    IF key \in DOMAIN mapping THEN mapping[key] ELSE default

\* float(value or 0) of a raw value: null and 0 give 0.0, a text that is
\* not a number raises.
FloatOrZero(value) ==
    IF value = None \/ value = Zero THEN Zero
    ELSE IF Number(value) THEN value
    ELSE ValueError

\* from_record, "Water cut validation with forward fill": the comparison of
\* a text with the limits raises.
ForwardFilled(water_cut, last_valid_water_cut) ==
    IF water_cut = None THEN last_valid_water_cut
    ELSE IF ~Number(water_cut) THEN TypeError
    ELSE IF ~(FLe(Zero, water_cut) /\ FLe(water_cut, F(100)))
    THEN last_valid_water_cut
    ELSE water_cut

\* The sample made of the converted fields, or the exception of the first
\* conversion that raised.
Converted(timestamp, gross_fluid_rate, water_cut, current_injection_rate) ==
    IF Raised(gross_fluid_rate) THEN gross_fluid_rate
    ELSE IF Raised(water_cut) THEN water_cut
    ELSE IF Raised(current_injection_rate) THEN current_injection_rate
    ELSE ProductionData(timestamp, gross_fluid_rate, water_cut, current_injection_rate)

\* ProductionData.from_record, for a record that carries its timestamp.
from_record(record, last_valid_water_cut) ==
    Converted(record.timestamp,
              FloatOrZero(Get(record, "gross_fluid_rate", Zero)),
              ForwardFilled(Get(record, "water_cut", None), last_valid_water_cut),
              FloatOrZero(Get(record, "current_injection_rate", Zero)))

\* The fields of WellSettings in the order from_database converts them.
SettingsFields ==
    <<"target_ppm", "chemical_density", "active_intensity", "cost_per_gallon", "min_pump_rate", "max_pump_rate">>

\* The positions of the supplied fields whose conversion raises.
Unconvertible(settings) ==
    { i \in DOMAIN SettingsFields :
        /\ SettingsFields[i] \in DOMAIN settings
        /\ ~Number(settings[SettingsFields[i]]) }

First(positions) == CHOOSE i \in positions : \A j \in positions : i <= j

\* WellSettings.from_database: None and the empty mapping are both falsy and
\* give the defaults; otherwise each field is looked up with its default
\* and converted, target_ppm by int() and the others by float(), and the
\* first conversion that fails raises.  (The defaults convert to
\* themselves.)
from_database(settings) ==
    IF DOMAIN settings = {}
    THEN [target_ppm       |-> DefaultSettings.TARGET_PPM,
          chemical_density |-> DefaultSettings.CHEMICAL_DENSITY,
          active_intensity |-> DefaultSettings.ACTIVE_INTENSITY,
          cost_per_gallon  |-> DefaultSettings.COST_PER_GALLON,
          min_pump_rate    |-> DefaultSettings.MIN_PUMP_RATE,
          max_pump_rate    |-> DefaultSettings.MAX_PUMP_RATE]
    ELSE IF Unconvertible(settings) # {}
    THEN ConversionError(settings[SettingsFields[First(Unconvertible(settings))]])
    ELSE [target_ppm       |-> Trunc(Get(settings, "target_ppm", F(DefaultSettings.TARGET_PPM))),
          chemical_density |-> Get(settings, "chemical_density", DefaultSettings.CHEMICAL_DENSITY),
          active_intensity |-> Get(settings, "active_intensity", DefaultSettings.ACTIVE_INTENSITY),
          cost_per_gallon  |-> Get(settings, "cost_per_gallon", DefaultSettings.COST_PER_GALLON),
          min_pump_rate    |-> Get(settings, "min_pump_rate", DefaultSettings.MIN_PUMP_RATE),
          max_pump_rate    |-> Get(settings, "max_pump_rate", DefaultSettings.MAX_PUMP_RATE)]

\* ChemicalOptimizer.__init__
ChemicalOptimizer(settings) ==
    [settings              |-> settings,
     last_valid_water_cut  |-> F(50),
     last_gross_fluid_rate |-> None,
     last_data_timestamp   |-> None]

\* Python truthiness of an optional integer: None and 0 are both falsy.
Truthy(opt) == opt # None /\ opt[1] # 0

\* -------------------------------------------------------------------------
\* Core optimization logic
\* -------------------------------------------------------------------------

\* is_stale taking a timestamp never recorded for 0.
is_stale_since_epoch(self, data) ==
    data.timestamp -
        (IF self.last_data_timestamp = None THEN 0
         ELSE self.last_data_timestamp[1]) > NO_DATA_TIMEOUT_SECONDS

\* Step 1, the staleness check: a last-seen timestamp that is truthy and
\* more than NO_DATA_TIMEOUT_SECONDS older than the sample.
is_stale(self, data) ==
    /\ Truthy(self.last_data_timestamp)
    /\ data.timestamp - self.last_data_timestamp[1] > NO_DATA_TIMEOUT_SECONDS

\* is_spike with the threshold included: a change of exactly 500% counts.
is_spike_inclusive(data, previous_rate) ==
    /\ previous_rate # None
    /\ FGt(previous_rate, Zero)
    /\ LET change_percent ==
               FMul(FDiv(FAbs(FSub(data.gross_fluid_rate, previous_rate)),
                         previous_rate), F(100))
       IN  FGe(change_percent, F(SPIKE_THRESHOLD_PERCENT))

\* is_spike measuring a fall against the rate fallen to.
is_spike_symmetric(data, previous_rate) ==
    /\ previous_rate # None
    /\ FGt(previous_rate, Zero)
    /\ LET change_percent ==
               FMul(FDiv(FAbs(FSub(data.gross_fluid_rate, previous_rate)),
                         IF FGt(data.gross_fluid_rate, Zero)
                            /\ FLt(data.gross_fluid_rate, previous_rate)
                         THEN data.gross_fluid_rate ELSE previous_rate), F(100))
       IN  FGt(change_percent, F(SPIKE_THRESHOLD_PERCENT))

\* Step 1, the spike filter.
is_spike(data, previous_rate) ==
    /\ previous_rate # None
    /\ FGt(previous_rate, Zero)
    /\ LET change_percent ==
               FMul(FDiv(FAbs(FSub(data.gross_fluid_rate, previous_rate)),
                         previous_rate), F(100))
       IN  FGt(change_percent, F(SPIKE_THRESHOLD_PERCENT))

\* update_tracking without the range check on the water cut.
update_tracking_unchecked(self, data) ==
    [self EXCEPT
        !.last_data_timestamp = <<data.timestamp>>,
        !.last_valid_water_cut = data.water_cut]

\* Step 1, "Update tracking".
update_tracking(self, data) ==
    [self EXCEPT
        !.last_data_timestamp = <<data.timestamp>>,
        !.last_valid_water_cut =
            IF FLe(Zero, data.water_cut) /\ FLe(data.water_cut, F(100))
            THEN data.water_cut ELSE @]

\* validate_and_filter, "Update tracking", its two statements.
track_timestamp_latest(self, data) ==
    [self EXCEPT !.last_data_timestamp =
        IF @ # None /\ @[1] > data.timestamp THEN @ ELSE <<data.timestamp>>]

track_timestamp(self, data) ==
    [self EXCEPT !.last_data_timestamp = <<data.timestamp>>]

track_water_cut(self, data) ==
    [self EXCEPT !.last_valid_water_cut =
        IF FLe(Zero, data.water_cut) /\ FLe(data.water_cut, F(100))
        THEN data.water_cut ELSE @]

\* validate_and_filter recording the timestamp of a stale sample, so that
\* the samples after a gap are in time again.
validate_and_filter_resumes(self, data, previous_rate) ==
    IF is_stale(self, data)
    THEN [is_valid |-> FALSE, error |-> "NO_DATA_TIMEOUT",
          self |-> track_timestamp(self, data)]
    ELSE IF is_spike(data, previous_rate)
    THEN [is_valid |-> FALSE, error |-> "SPIKE_DETECTED", self |-> self]
    ELSE [is_valid |-> TRUE, error |-> "None", self |-> update_tracking(self, data)]

\* validate_and_filter updating the tracking before the checks.
validate_and_filter_tracks_first(self, data, previous_rate) ==
    IF is_stale(self, data)
    THEN [is_valid |-> FALSE, error |-> "NO_DATA_TIMEOUT",
          self |-> update_tracking(self, data)]
    ELSE IF is_spike(data, previous_rate)
    THEN [is_valid |-> FALSE, error |-> "SPIKE_DETECTED",
          self |-> update_tracking(self, data)]
    ELSE [is_valid |-> TRUE, error |-> "None", self |-> update_tracking(self, data)]

\* Step 1.  Returns (is_valid, error_message) and the optimizer as the call
\* leaves it: tracking is updated only when both checks pass.
validate_and_filter(self, data, previous_rate) ==
    IF is_stale(self, data)
    THEN [is_valid |-> FALSE, error |-> "NO_DATA_TIMEOUT", self |-> self]
    ELSE IF is_spike(data, previous_rate)
    THEN [is_valid |-> FALSE, error |-> "SPIKE_DETECTED", self |-> self]
    ELSE [is_valid |-> TRUE, error |-> "None", self |-> update_tracking(self, data)]

\* calculate_water_volume taking the whole flow for water.
calculate_water_volume_gross(self, data) == data.gross_fluid_rate

\* Step 2.
calculate_water_volume(self, data) ==
    FMul(data.gross_fluid_rate, FDiv(data.water_cut, F(100)))

\* Step 3, "Adjust for Active Intensity": active_intensity / 100, and 1.0
\* (the "safety fallback") if that is not positive.
intensity_factor(self) ==
    LET intensity == FDiv(self.settings.active_intensity, F(100))
    IN  IF FLe(intensity, Zero) THEN F(1) ELSE intensity

\* Step 3 for a water volume > 0 and a density other than 0, with the
\* intensity factor it divides by.
volume_gallons(self, water_bpd, factor) ==
    LET water_mass_lbs == FMul(water_bpd, WATER_LBS_PER_BBL)
        pure_chemical_mass_lbs ==
            FMul(water_mass_lbs,
                 FDiv(F(self.settings.target_ppm), F(PPM_DIVISOR)))
        gross_chemical_mass_lbs == FDiv(pure_chemical_mass_lbs, factor)
        gross_chemical_mass_kg == FDiv(gross_chemical_mass_lbs, KG_TO_LBS)
        volume_liters == FDiv(gross_chemical_mass_kg, self.settings.chemical_density)
    IN  FDiv(volume_liters, LITERS_PER_GALLON)

\* Step 3.  The division by chemical_density is the one division of the
\* pipeline whose divisor is not guarded: it raises for a density of 0.
calculate_required_chemical_volume(self, water_bpd) ==
    IF FLe(water_bpd, Zero) THEN Zero
    ELSE IF self.settings.chemical_density = Zero THEN ZeroDivisionError
    ELSE volume_gallons(self, water_bpd, intensity_factor(self))

\* apply_constraints without the upper limit.
apply_constraints_unbounded(self, recommended_gpd) ==
    IF FLe(recommended_gpd, Zero) THEN Zero
    ELSE IF FLt(recommended_gpd, self.settings.min_pump_rate)
    THEN self.settings.min_pump_rate
    ELSE recommended_gpd

\* Step 4.
apply_constraints(self, recommended_gpd) ==
    IF FLe(recommended_gpd, Zero) THEN Zero
    ELSE IF FLt(recommended_gpd, self.settings.min_pump_rate)
    THEN self.settings.min_pump_rate
    ELSE IF FGt(recommended_gpd, self.settings.max_pump_rate)
    THEN self.settings.max_pump_rate
    ELSE recommended_gpd

\* calculate_financial_impact with the difference taken the other way.
calculate_financial_impact_reversed(self, current_rate, recommended_rate) ==
    LET delta_gpd == FSub(recommended_rate, current_rate)
    IN  FMul(delta_gpd, self.settings.cost_per_gallon)

\* Step 5.
calculate_financial_impact(self, current_rate, recommended_rate) ==
    LET delta_gpd == FSub(current_rate, recommended_rate)
    IN  FMul(delta_gpd, self.settings.cost_per_gallon)

\* determine_status comparing the size of the difference, whatever its
\* sign, with the threshold.
determine_status_unsigned(self, data, recommended_rate, validation_error) ==
    IF validation_error # "None"
    THEN (IF validation_error = "NO_DATA_TIMEOUT" THEN NO_DATA ELSE ERROR)
    ELSE IF ~data.pump_status \/ FLe(data.gross_fluid_rate, Zero) THEN PUMP_OFF
    ELSE IF FLe(recommended_rate, Zero) THEN PUMP_OFF
    ELSE LET diff_percent ==
                 FMul(FDiv(FSub(data.current_injection_rate, recommended_rate),
                           recommended_rate), F(100))
         IN  IF FGt(FAbs(diff_percent), F(UNDER_DOSE_THRESHOLD_PERCENT))
             THEN OVER_DOSING
             ELSE OPTIMAL

\* determine_status with the thresholds included in the dosing alarms.
determine_status_inclusive(self, data, recommended_rate, validation_error) ==
    IF validation_error # "None"
    THEN (IF validation_error = "NO_DATA_TIMEOUT" THEN NO_DATA ELSE ERROR)
    ELSE IF ~data.pump_status \/ FLe(data.gross_fluid_rate, Zero) THEN PUMP_OFF
    ELSE IF FLe(recommended_rate, Zero) THEN PUMP_OFF
    ELSE LET diff_percent ==
                 FMul(FDiv(FSub(data.current_injection_rate, recommended_rate),
                           recommended_rate), F(100))
         IN  IF FGe(diff_percent, F(UNDER_DOSE_THRESHOLD_PERCENT)) THEN OVER_DOSING
             ELSE IF FLe(diff_percent, FNeg(F(UNDER_DOSE_THRESHOLD_PERCENT)))
             THEN UNDER_DOSING
             ELSE OPTIMAL

\* Determine the status flag from the dosing comparison.
determine_status(self, data, recommended_rate, validation_error) ==
    IF validation_error # "None"
    THEN (IF validation_error = "NO_DATA_TIMEOUT" THEN NO_DATA ELSE ERROR)
    ELSE IF ~data.pump_status \/ FLe(data.gross_fluid_rate, Zero) THEN PUMP_OFF
    ELSE IF FLe(recommended_rate, Zero) THEN PUMP_OFF
    ELSE LET diff_percent ==
                 FMul(FDiv(FSub(data.current_injection_rate, recommended_rate),
                           recommended_rate), F(100))
         IN  IF FGt(diff_percent, F(UNDER_DOSE_THRESHOLD_PERCENT)) THEN OVER_DOSING
             ELSE IF FLt(diff_percent, FNeg(F(UNDER_DOSE_THRESHOLD_PERCENT)))
             THEN UNDER_DOSING
             ELSE OPTIMAL

\* calculate_current_ppm taking the whole product for active ingredient.
calculate_current_ppm_undiluted(self, data, water_bpd) ==
    IF FLe(water_bpd, Zero) \/ FLe(data.current_injection_rate, Zero) THEN Zero
    ELSE LET volume_liters == FMul(data.current_injection_rate, LITERS_PER_GALLON)
             mass_kg == FMul(volume_liters, self.settings.chemical_density)
             gross_mass_lbs == FMul(mass_kg, KG_TO_LBS)
             water_mass_lbs == FMul(water_bpd, WATER_LBS_PER_BBL)
         IN  IF FLe(water_mass_lbs, Zero) THEN Zero
             ELSE FMul(FDiv(gross_mass_lbs, water_mass_lbs), F(PPM_DIVISOR))

\* The reverse calculation: the ppm a given injection rate achieves.
calculate_current_ppm(self, data, water_bpd) ==
    IF FLe(water_bpd, Zero) \/ FLe(data.current_injection_rate, Zero) THEN Zero
    ELSE LET volume_liters == FMul(data.current_injection_rate, LITERS_PER_GALLON)
             mass_kg == FMul(volume_liters, self.settings.chemical_density)
             gross_mass_lbs == FMul(mass_kg, KG_TO_LBS)
             pure_mass_lbs ==
                 FMul(gross_mass_lbs, FDiv(self.settings.active_intensity, F(100)))
             water_mass_lbs == FMul(water_bpd, WATER_LBS_PER_BBL)
         IN  IF FLe(water_mass_lbs, Zero) THEN Zero
             ELSE FMul(FDiv(pure_mass_lbs, water_mass_lbs), F(PPM_DIVISOR))

OptimizationResult(timestamp, recommended_rate_gpd, actual_rate_gpd, savings_opportunity_usd, status_flag, water_bpd, current_ppm, target_ppm) ==
    [timestamp               |-> timestamp,
     recommended_rate_gpd    |-> recommended_rate_gpd,
     actual_rate_gpd         |-> actual_rate_gpd,
     savings_opportunity_usd |-> savings_opportunity_usd,
     status_flag             |-> status_flag,
     water_bpd               |-> water_bpd,
     current_ppm             |-> current_ppm,
     target_ppm              |-> target_ppm]

\* OptimizationResult.to_dict: round() of a field that is None raises.
to_dict(self) ==
    IF \/ self.recommended_rate_gpd = None
       \/ self.savings_opportunity_usd = None
       \/ self.water_bpd = None
       \/ self.current_ppm = None
    THEN TypeError
    ELSE [timestamp               |-> self.timestamp,
          recommended_rate_gpd    |-> Round(self.recommended_rate_gpd, 3),
          actual_rate_gpd         |-> Round(self.actual_rate_gpd, 3),
          savings_opportunity_usd |-> Round(self.savings_opportunity_usd, 2),
          status_flag             |-> self.status_flag,
          water_bpd               |-> Round(self.water_bpd, 2),
          current_ppm             |-> Round(self.current_ppm, 1),
          target_ppm              |-> self.target_ppm]

\* round(x, ndigits) if x else None: None and 0.0 are both falsy.
RoundedIfTruthy(x, ndigits) ==
    IF x = None \/ x = Zero THEN None ELSE Round(x, ndigits)

\* OptimizationResult.to_dict of lambda_function_prod: a falsy field is
\* stored as None.
to_dict_prod(self) ==
    [timestamp               |-> self.timestamp,
     recommended_rate_gpd    |-> RoundedIfTruthy(self.recommended_rate_gpd, 3),
     actual_rate_gpd         |-> Round(self.actual_rate_gpd, 3),
     savings_opportunity_usd |-> RoundedIfTruthy(self.savings_opportunity_usd, 2),
     status_flag             |-> self.status_flag,
     water_bpd               |-> RoundedIfTruthy(self.water_bpd, 2),
     current_ppm             |-> RoundedIfTruthy(self.current_ppm, 1),
     target_ppm              |-> self.target_ppm]

\* optimize, "Handle pump off condition": the result of a sample without flow.
pump_off_result(self, data) ==
    OptimizationResult(
        data.timestamp, Zero, data.current_injection_rate,
        FMul(data.current_injection_rate, self.settings.cost_per_gallon),
        PUMP_OFF, Zero, Zero, self.settings.target_ppm)

\* rejected_result with 0 where the numeric fields are None.
rejected_result_zeroed(self, data, status_flag) ==
    OptimizationResult(
        data.timestamp, Zero, data.current_injection_rate, Zero,
        status_flag, Zero, Zero, self.settings.target_ppm)

\* optimize, "Handle validation errors" and "Handle spike": the result of a
\* rejected sample, its numeric fields None.
rejected_result(self, data, status_flag) ==
    OptimizationResult(
        data.timestamp, None, data.current_injection_rate, None,
        status_flag, None, None, self.settings.target_ppm)

\* optimize, "Build result": what a call that ran steps 2 to 5 returns, from
\* the water volume of step 2, the raw recommendation of step 3 and the
\* constrained one of step 4.
build_result(self, data, water_bpd, raw_recommended_gpd, recommended_gpd) ==
    [self |-> self,
     raw_recommended_gpd |-> raw_recommended_gpd,
     result |-> OptimizationResult(
         data.timestamp, recommended_gpd, data.current_injection_rate,
         calculate_financial_impact(self, data.current_injection_rate, recommended_gpd),
         determine_status(self, data, recommended_gpd, "None"),
         water_bpd, calculate_current_ppm(self, data, water_bpd),
         self.settings.target_ppm)]

\* optimize from step 4 on, from step 3 on, and from step 2 on.
constrain_and_build(self, data, water_bpd, raw_recommended_gpd) ==
    IF Raised(raw_recommended_gpd)
    THEN [self |-> self, raw_recommended_gpd |-> None,
          result |-> raw_recommended_gpd]
    ELSE build_result(self, data, water_bpd, raw_recommended_gpd,
                      apply_constraints(self, raw_recommended_gpd))

dose_and_build(self, data, water_bpd) ==
    constrain_and_build(self, data, water_bpd,
                        calculate_required_chemical_volume(self, water_bpd))

calculated_result(self, data) ==
    dose_and_build(self, data, calculate_water_volume(self, data))

\* What a call returns before step 2: a result, no raw recommendation.
early_return(self, early_result) ==
    [self |-> self, raw_recommended_gpd |-> None, result |-> early_result]

\* optimize after validate_and_filter returned v = (is_valid, error) and
\* left the optimizer as v.self: the pump-off condition, the validation
\* errors, the calculation.
after_validation(v, data) ==
    IF ~data.pump_status \/ FLe(data.gross_fluid_rate, Zero)
    THEN early_return(v.self, pump_off_result(v.self, data))
    ELSE IF ~v.is_valid /\ v.error = "NO_DATA_TIMEOUT"
    THEN early_return(v.self, rejected_result(v.self, data, NO_DATA))
    ELSE IF ~v.is_valid /\ v.error = "SPIKE_DETECTED"
    THEN early_return(v.self, rejected_result(v.self, data, ERROR))
    ELSE calculated_result(v.self, data)

\* optimize handling the validation errors before the pump-off condition.
optimize_rejects_first(self, data, previous_rate) ==
    LET v == validate_and_filter(self, data, previous_rate)
    IN  IF ~v.is_valid /\ v.error = "NO_DATA_TIMEOUT"
        THEN early_return(v.self, rejected_result(v.self, data, NO_DATA))
        ELSE IF ~v.is_valid /\ v.error = "SPIKE_DETECTED"
        THEN early_return(v.self, rejected_result(v.self, data, ERROR))
        ELSE IF ~data.pump_status \/ FLe(data.gross_fluid_rate, Zero)
        THEN early_return(v.self, pump_off_result(v.self, data))
        ELSE calculated_result(v.self, data)

\* optimize handling the pump-off condition before validating.
optimize_pump_off_first(self, data, previous_rate) ==
    IF ~data.pump_status \/ FLe(data.gross_fluid_rate, Zero)
    THEN early_return(self, pump_off_result(self, data))
    ELSE after_validation(validate_and_filter(self, data, previous_rate), data)

\* The main pipeline.  Returns the result, the optimizer as the call leaves
\* it, and the raw recommendation, None when the call returns before step 3.
\* When step 3 raises, the exception takes the place of the result.
\* Validation, which updates the tracking, runs before the pump-off check.
optimize(self, data, previous_rate) ==
    after_validation(validate_and_filter(self, data, previous_rate), data)

\* -------------------------------------------------------------------------
\* The ChemicalOptimizer of lambda_function_prod.py
\* -------------------------------------------------------------------------

\* ChemicalOptimizer.__init__
ChemicalOptimizer_prod(settings) ==
    [settings             |-> settings,
     last_valid_water_cut |-> F(50),
     last_data_timestamp  |-> None]

\* Step 1: the staleness check, the spike filter, the tracking.
validate_and_filter_prod(self, data, previous_rate) ==
    IF /\ Truthy(self.last_data_timestamp)
       /\ data.timestamp - self.last_data_timestamp[1] > NO_DATA_TIMEOUT_SECONDS
    THEN [is_valid |-> FALSE, error |-> "NO_DATA_TIMEOUT", self |-> self]
    ELSE IF /\ previous_rate # None
            /\ FGt(previous_rate, Zero)
            /\ FGt(FMul(FDiv(FAbs(FSub(data.gross_fluid_rate, previous_rate)),
                              previous_rate), F(100)),
                    F(SPIKE_THRESHOLD_PERCENT))
    THEN [is_valid |-> FALSE, error |-> "SPIKE_DETECTED", self |-> self]
    ELSE [is_valid |-> TRUE, error |-> "None",
          self |-> [self EXCEPT
                      !.last_data_timestamp = <<data.timestamp>>,
                      !.last_valid_water_cut =
                          IF FLe(Zero, data.water_cut) /\ FLe(data.water_cut, F(100))
                          THEN data.water_cut ELSE @]]

\* Step 2.
calculate_water_volume_prod(self, data) ==
    FMul(data.gross_fluid_rate, FDiv(data.water_cut, F(100)))

\* Step 3: the intensity factor is active_intensity / 100 or 0.01, whichever
\* is greater; the division by chemical_density raises for a density of 0.
calculate_required_chemical_volume_prod(self, water_bpd) ==
    IF FLe(water_bpd, Zero) THEN Zero
    ELSE IF self.settings.chemical_density = Zero THEN ZeroDivisionError
    ELSE LET water_mass_lbs == FMul(water_bpd, WATER_LBS_PER_BBL)
             pure_chemical_mass_lbs ==
                 FMul(water_mass_lbs,
                      FDiv(F(self.settings.target_ppm), F(PPM_DIVISOR)))
             gross_chemical_mass_lbs ==
                 FDiv(pure_chemical_mass_lbs,
                      FMax(FDiv(self.settings.active_intensity, F(100)), Dec(1, 2)))
             gross_chemical_mass_kg == FDiv(gross_chemical_mass_lbs, KG_TO_LBS)
             volume_liters == FDiv(gross_chemical_mass_kg, self.settings.chemical_density)
         IN  FDiv(volume_liters, LITERS_PER_GALLON)

\* Step 4: max(min_pump_rate, min(recommended_gpd, max_pump_rate)).
apply_constraints_prod(self, recommended_gpd) ==
    IF FLe(recommended_gpd, Zero) THEN Zero
    ELSE FMax(self.settings.min_pump_rate,
              FMin(recommended_gpd, self.settings.max_pump_rate))

\* Step 5.
calculate_financial_impact_prod(self, current_rate, recommended_rate) ==
    FMul(FSub(current_rate, recommended_rate), self.settings.cost_per_gallon)

\* Determine the status flag of a sample that was not rejected.
determine_status_prod(self, data, recommended_rate) ==
    IF ~data.pump_status \/ FLe(data.gross_fluid_rate, Zero) THEN PUMP_OFF
    ELSE IF FLe(recommended_rate, Zero) THEN PUMP_OFF
    ELSE LET diff_percent ==
                 FMul(FDiv(FSub(data.current_injection_rate, recommended_rate),
                           recommended_rate), F(100))
         IN  IF FGt(diff_percent, F(UNDER_DOSE_THRESHOLD_PERCENT)) THEN OVER_DOSING
             ELSE IF FLt(diff_percent, FNeg(F(UNDER_DOSE_THRESHOLD_PERCENT)))
             THEN UNDER_DOSING
             ELSE OPTIMAL

\* The ppm the current injection rate achieves:
\* (pure_mass_lbs / water_mass_lbs) * PPM_DIVISOR if water_mass_lbs > 0
\* else 0.0
calculate_current_ppm_prod(self, data, water_bpd) ==
    IF FLe(water_bpd, Zero) \/ FLe(data.current_injection_rate, Zero) THEN Zero
    ELSE LET volume_liters == FMul(data.current_injection_rate, LITERS_PER_GALLON)
             mass_kg == FMul(volume_liters, self.settings.chemical_density)
             gross_mass_lbs == FMul(mass_kg, KG_TO_LBS)
             pure_mass_lbs ==
                 FMul(gross_mass_lbs, FDiv(self.settings.active_intensity, F(100)))
             water_mass_lbs == FMul(water_bpd, WATER_LBS_PER_BBL)
         IN  IF FGt(water_mass_lbs, Zero)
             THEN FMul(FDiv(pure_mass_lbs, water_mass_lbs), F(PPM_DIVISOR))
             ELSE Zero

\* optimize from step 4 on: the result of a sample that was not rejected,
\* or the exception step 3 raised.
build_result_prod(self, data, water_bpd, raw_recommended_gpd) ==
    IF Raised(raw_recommended_gpd) THEN raw_recommended_gpd
    ELSE OptimizationResult(
             data.timestamp,
             apply_constraints_prod(self, raw_recommended_gpd),
             data.current_injection_rate,
             calculate_financial_impact_prod(
                 self, data.current_injection_rate,
                 apply_constraints_prod(self, raw_recommended_gpd)),
             determine_status_prod(self, data,
                                   apply_constraints_prod(self, raw_recommended_gpd)),
             water_bpd,
             calculate_current_ppm_prod(self, data, water_bpd),
             self.settings.target_ppm)

\* optimize after validate_and_filter returned v and left the optimizer as
\* v.self: the pump-off condition, "if not is_valid", the calculation.
after_validation_prod(v, data) ==
    [self |-> v.self,
     result |->
        IF ~data.pump_status \/ FLe(data.gross_fluid_rate, Zero)
        THEN OptimizationResult(
                 data.timestamp, Zero, data.current_injection_rate,
                 FMul(data.current_injection_rate, v.self.settings.cost_per_gallon),
                 PUMP_OFF, Zero, Zero, v.self.settings.target_ppm)
        ELSE IF ~v.is_valid
        THEN OptimizationResult(
                 data.timestamp, None, data.current_injection_rate, None,
                 IF v.error = "SPIKE_DETECTED" THEN ERROR ELSE NO_DATA,
                 None, None, v.self.settings.target_ppm)
        ELSE build_result_prod(
                 v.self, data, calculate_water_volume_prod(v.self, data),
                 calculate_required_chemical_volume_prod(
                     v.self, calculate_water_volume_prod(v.self, data)))]

\* The main pipeline: the result and the optimizer as the call leaves it.
optimize_prod(self, data, previous_rate) ==
    after_validation_prod(validate_and_filter_prod(self, data, previous_rate), data)

\* -------------------------------------------------------------------------
\* The state machine: one optimizer of one well and the calls made on it
\* -------------------------------------------------------------------------

\* The number of optimize() calls made on one optimizer.
MaxCalls == 2

\* Raw settings records of the stream of calls: absent (all defaults), and
\* a record for a diluted, denser chemical with narrow pump limits.
RawSettings ==
    { None,
      [target_ppm |-> F(100), chemical_density |-> Dec(12, 1),
       active_intensity |-> F(50), cost_per_gallon |-> Dec(25, 1),
       min_pump_rate |-> F(6), max_pump_rate |-> F(35)] }

\* Sample times: gaps of exactly 300 s and of 301 s after a recorded time,
\* and time 0, the time a record without a timestamp is given.
Timestamps == {0, 100, 400, 401}

\* Flow rates: no flow, a negative reading, and 1000 followed by 6000 (a
\* 500% change) or by 7000 (600%).
GrossFluidRates == {Zero, F(-5000), F(1000), F(6000), F(7000)}

\* Water cuts in and out of [0, 100].
WaterCuts == {F(80), F(150)}

PreviousRates == {None, Zero, F(1000)}

Samples ==
    { ProductionData(t, g, w, F(5)) :
        t \in Timestamps, g \in GrossFluidRates, w \in WaterCuts }

\* Raw settings records of the dosing calculation: absent, crossed pump
\* limits, a free chemical, diluted chemicals, a product of which less than
\* 1% is active, a non-positive intensity, limits the recommendation stays
\* within, and a negative density.
DosingRawSettings ==
    { None,
      [min_pump_rate |-> F(10), max_pump_rate |-> F(5)],
      [cost_per_gallon |-> Zero],
      [target_ppm |-> F(100), chemical_density |-> Dec(12, 1),
       active_intensity |-> F(50), min_pump_rate |-> F(6),
       max_pump_rate |-> F(35)],
      [target_ppm |-> F(50), chemical_density |-> Dec(8, 1),
       active_intensity |-> Dec(5, 1), min_pump_rate |-> F(1),
       max_pump_rate |-> F(1000)],
      [active_intensity |-> Zero, cost_per_gallon |-> Dec(25, 1)],
      [active_intensity |-> F(-20), min_pump_rate |-> Zero,
       max_pump_rate |-> F(100)],
      [chemical_density |-> F(-1)] }

DosingFluidRates == {Zero, F(1), F(60), F(1000), F(6000), F(7000)}

DosingWaterCuts == {Zero, F(50), F(80), F(100), F(150)}

\* Injection rates, two of them too small to change a difference they
\* enter.
DosingInjectionRates ==
    {Zero, Dec(1, 20), Dec(2, 20), F(5), F(9), F(11), F(45), F(55), F(56)}

DosingSamples ==
    { ProductionData(100, g, w, c) :
        g \in DosingFluidRates, w \in DosingWaterCuts,
        c \in DosingInjectionRates }

VARIABLES
    optimizer,            \* the ChemicalOptimizer: settings and carried state
    data,                 \* the sample of the last optimize() call
    previous_rate,        \* the previous_rate argument of that call
    result,               \* the OptimizationResult it returned
    raw_recommended_gpd,  \* its raw recommendation (step 3), None if not reached
    before,               \* the optimizer as it was when the call was made
    calls,                \* the number of calls made so far
    compared,             \* the result for the same sample at another injection rate
    loaded,               \* a raw settings mapping and what the loader made of it
    parsed,               \* a raw record and the sample made of it
    handler,              \* the locals of the stream handler working through its records
    serialized,           \* a result and the mapping the API response made of it
    stored,               \* a result and the mapping lambda_function_prod stored for it
    twin,                 \* a second optimizer with the same settings, and its last result
    threads,              \* two optimize() calls in progress on the one optimizer
    chat,                 \* the chat endpoint: its rate limiter, its clock and its last request
    run,                  \* the first NO_DATA of a run of calls and the timestamps since
    records,              \* the samples of the records a driver has worked through
    pair                  \* both optimizers of a well, fed the same calls, and their last results

\* The optimizer and the last call on it.
call_vars == <<optimizer, data, previous_rate, result, raw_recommended_gpd, before, calls>>

vars == <<call_vars, compared, loaded, parsed, handler, serialized, stored, twin, threads, chat, run, records, pair>>

\* What the calls on the optimizer leave alone.
others == <<compared, loaded, parsed, handler, serialized, stored, twin, threads, chat, run, records, pair>>

\* A freshly constructed optimizer on which no call was made yet.
Fresh(raw) ==
    /\ optimizer = ChemicalOptimizer(from_database(raw))
    /\ data = None
    /\ previous_rate = None
    /\ result = None
    /\ raw_recommended_gpd = None
    /\ before = None
    /\ calls = 0
    /\ compared = None
    /\ loaded = None
    /\ parsed = None
    /\ handler = None
    /\ serialized = None
    /\ stored = None
    /\ twin = None
    /\ threads = None
    /\ chat = None
    /\ run = None
    /\ records = None
    /\ pair = None

\* result = optimizer.optimize(sample, prev)
Invoke(sample, prev) ==
    \E out \in {optimize(optimizer, sample, prev)} :
        /\ optimizer' = out.self
        /\ result' = out.result
        /\ raw_recommended_gpd' = out.raw_recommended_gpd
        /\ data' = sample
        /\ previous_rate' = prev
        /\ before' = optimizer
        /\ calls' = calls + 1

Call(sample, prev) == Invoke(sample, prev) /\ UNCHANGED others

\* The stream of calls on one optimizer.
Init == \E raw \in RawSettings : Fresh(raw)

Optimize ==
    /\ calls < MaxCalls
    /\ \E sample \in Samples, prev \in PreviousRates : Call(sample, prev)

Next == Optimize

Spec == Init /\ [][Next]_vars

\* The dosing calculation: one call, without previous rate, on a fresh
\* optimizer.
InitDosing == \E raw \in DosingRawSettings : Fresh(raw)

Dose ==
    /\ calls = 0
    /\ \E sample \in DosingSamples : Call(sample, None)

NextDosing == Dose

SpecDosing == InitDosing /\ [][NextDosing]_vars

\* The dosing calculation under every kind of configuration the loader
\* produces: those above, a density of 0 and targets that are not positive.
AnyRawSettings ==
    DosingRawSettings \cup
    { [chemical_density |-> Zero],
      [target_ppm |-> Zero],
      [target_ppm |-> F(-100), cost_per_gallon |-> Dec(25, 1)],
      [target_ppm |-> Zero, chemical_density |-> Zero] }

InitAnyConfig == \E raw \in AnyRawSettings : Fresh(raw)

SpecAnyConfig == InitAnyConfig /\ [][NextDosing]_vars

\* The loader on its own.  A stored mapping supplies each field as a
\* number, as a text that is not a number, as null, or not at all.
Supplies == {"number", "text", "null", "absent"}

SuppliedNumber ==
    [target_ppm       |-> Dec(1507, 1),
     chemical_density |-> Dec(12, 1),
     active_intensity |-> F(50),
     cost_per_gallon  |-> Dec(25, 1),
     min_pump_rate    |-> F(6),
     max_pump_rate    |-> F(35)]

RawMapping(supply) ==
    [ field \in {f \in DOMAIN supply : supply[f] # "absent"} |->
        IF supply[field] = "number" THEN SuppliedNumber[field]
        ELSE IF supply[field] = "text" THEN [text |-> "abc"]
        ELSE None ]

LoaderRawSettings ==
    { RawMapping(supply) : supply \in [DOMAIN SuppliedNumber -> Supplies] }

InitLoader == Fresh(None)

Load ==
    /\ loaded = None
    /\ \E raw \in LoaderRawSettings :
         loaded' = [raw |-> raw, settings |-> from_database(raw)]
    /\ UNCHANGED <<call_vars, compared, parsed, handler, serialized, stored, twin, threads, chat, run, records, pair>>

NextLoader == Load

SpecLoader == InitLoader /\ [][NextLoader]_vars

\* The sample constructor on its own.  A raw record carries a timestamp and
\* supplies each measurement as a number, as a text that is not a number,
\* as null, or not at all.
Absent == [absent |-> TRUE]

RecordNumbers ==
    [gross_fluid_rate       |-> {Zero, F(-5), F(1000)},
     water_cut              |-> {Zero, F(-5), F(60), F(100), F(150)},
     current_injection_rate |-> {Zero, F(5)}]

RawValues(field) == RecordNumbers[field] \cup {[text |-> "abc"], None, Absent}

RawRecord(timestamp, supply) ==
    [ field \in {"timestamp"} \cup {f \in DOMAIN supply : supply[f] # Absent} |->
        IF field = "timestamp" THEN timestamp ELSE supply[field] ]

RawRecords ==
    { RawRecord(100, [gross_fluid_rate |-> g, water_cut |-> w, current_injection_rate |-> c]) :
        g \in RawValues("gross_fluid_rate"), w \in RawValues("water_cut"),
        c \in RawValues("current_injection_rate") }

\* The last valid water cuts a caller passes: the initial 50 and one seen.
LastValidWaterCuts == {F(50), F(80)}

InitRecord == Fresh(None)

Parse ==
    /\ parsed = None
    /\ \E record \in RawRecords, last \in LastValidWaterCuts :
         parsed' = [record |-> record, last_valid_water_cut |-> last,
                    data |-> from_record(record, last)]
    /\ UNCHANGED <<call_vars, compared, loaded, handler, serialized, stored, twin, threads, chat, run, records, pair>>

NextRecord == Parse

SpecRecord == InitRecord /\ [][NextRecord]_vars

\* The stream handler (lambda_handler) working through the records of one
\* event: default settings, a previous flow rate from the cache or none,
\* its own last valid water cut, and the results so far.
CachedRates == {None, F(1000)}

StreamRecords ==
    { RawRecord(t, [gross_fluid_rate |-> g, water_cut |-> w, current_injection_rate |-> F(5)]) :
        t \in {100, 500}, g \in {Zero, F(1000), F(7000)},
        w \in {Absent, F(60), F(150)} }

InitStream ==
    /\ optimizer = ChemicalOptimizer(from_database(None))
    /\ data = None /\ previous_rate = None /\ result = None
    /\ raw_recommended_gpd = None /\ before = None /\ calls = 0
    /\ compared = None /\ loaded = None /\ parsed = None
    /\ serialized = None /\ stored = None
    /\ twin = None
    /\ threads = None
    /\ chat = None
    /\ run = None
    /\ records = None
    /\ pair = None
    /\ \E cached \in CachedRates :
         handler = [previous_rate |-> cached, last_valid_water_cut |-> F(50),
                    results |-> <<>>, response |-> None]

\* The previous rate carried on only from a record that was not rejected.
accepted_gross_fluid_rate(sample, outcome, baseline) ==
    IF outcome.status_flag \in {NO_DATA, ERROR} THEN baseline
    ELSE sample.gross_fluid_rate

\* "Update tracking" of the drivers: previous_rate = data.gross_fluid_rate,
\* whatever the result of the record.
gross_fluid_rate_seen(sample, outcome, baseline) == sample.gross_fluid_rate

\* The body of "for record in records".
Iterate ==
    /\ calls < MaxCalls
    /\ handler.response = None
    /\ \E record \in StreamRecords :
         \E sample \in {from_record(record, handler.last_valid_water_cut)} :
            /\ Invoke(sample, handler.previous_rate)
            /\ parsed' = [record |-> record,
                           last_valid_water_cut |-> handler.last_valid_water_cut,
                           data |-> sample]
            /\ handler' = [previous_rate |->
                                gross_fluid_rate_seen(sample, result', handler.previous_rate),
                            last_valid_water_cut |->
                                IF FLe(Zero, sample.water_cut) /\ FLe(sample.water_cut, F(100))
                                THEN sample.water_cut ELSE handler.last_valid_water_cut,
                            results |-> Append(handler.results, result'),
                            response |-> None]
    /\ UNCHANGED <<compared, loaded, serialized, stored, twin, threads, chat, run, records, pair>>

\* The response once the records are through: the results as dictionaries,
\* or the error response of "except Exception" when to_dict raises.
Response(results) ==
    IF results = <<>> THEN [status |-> "success", processed |-> 0]
    ELSE IF \E i \in DOMAIN results : Raised(to_dict(results[i]))
    THEN [status |-> "error"]
    ELSE [status |-> "success", processed |-> Len(results),
          results |-> [i \in DOMAIN results |-> to_dict(results[i])]]

Respond ==
    /\ handler.response = None
    /\ handler' = [handler EXCEPT !.response = Response(handler.results)]
    /\ UNCHANGED <<call_vars, compared, loaded, parsed, serialized, stored, twin, threads, chat, run, records, pair>>

NextStream == Iterate \/ Respond

SpecStream == InitStream /\ [][NextStream]_vars

\* The dosing calculation repeated for the same well and the same sample at
\* another injection rate: each request gets an optimizer of its own.
Compare ==
    /\ calls = 1
    /\ compared = None
    /\ \E rate \in DosingInjectionRates :
         \E out \in {optimize(ChemicalOptimizer(optimizer.settings),
                              [data EXCEPT !.current_injection_rate = rate],
                              None)} :
             compared' = out.result
    /\ UNCHANGED <<call_vars, loaded, parsed, handler, serialized, stored, twin, threads, chat, run, records, pair>>

NextCompare == Dose \/ Compare

SpecCompare == InitDosing /\ [][NextCompare]_vars

\* The carried state as class attributes: every instance reads and writes
\* the state of the instance written last.
class_state(self, other) ==
    [self EXCEPT
        !.last_valid_water_cut = other.last_valid_water_cut,
        !.last_gross_fluid_rate = other.last_gross_fluid_rate,
        !.last_data_timestamp = other.last_data_timestamp]

\* __init__ binds the carried state to the instance: a call on one optimizer
\* works on its own attributes, whatever another instance holds.
instance_state(self, other) == self

\* Samples and previous rates two optimizers are driven through: in time
\* and late, steady and spiking, water cuts in and out of range.
TwinSamples ==
    { ProductionData(t, g, w, F(5)) :
        t \in {100, 401}, g \in {F(1000), F(7000)}, w \in WaterCuts }

TwinPreviousRates == {None, F(1000)}

\* twin = ChemicalOptimizer(settings), a second optimizer constructed with
\* the settings of the first before any call.
Construct ==
    /\ calls = 0
    /\ twin = None
    /\ twin' = [optimizer |-> ChemicalOptimizer(optimizer.settings),
                driven |-> <<>>, results |-> <<>>]
    /\ UNCHANGED <<call_vars, compared, loaded, parsed, handler, serialized, stored, threads, chat, run, records, pair>>

\* A call on the first optimizer; the twin is to be driven through it too.
Drive ==
    /\ twin # None
    /\ calls < MaxCalls
    /\ \E sample \in TwinSamples, prev \in TwinPreviousRates :
         /\ Invoke(sample, prev)
         /\ twin' = [twin EXCEPT !.driven =
                Append(@, [data |-> sample, previous_rate |-> prev,
                           result |-> result'])]
    /\ UNCHANGED <<compared, loaded, parsed, handler, serialized, stored, threads, chat, run, records, pair>>

\* The next call of the sequence on the twin.
Replay ==
    /\ twin # None
    /\ Len(twin.results) < Len(twin.driven)
    /\ \E call \in {twin.driven[Len(twin.results) + 1]} :
         \E out \in {optimize(instance_state(twin.optimizer, optimizer),
                              call.data, call.previous_rate)} :
             twin' = [twin EXCEPT !.optimizer = out.self,
                                  !.results = Append(@, out.result)]
    /\ UNCHANGED <<call_vars, compared, loaded, parsed, handler, serialized, stored, threads, chat, run, records, pair>>

NextTwin == Construct \/ Drive \/ Replay

SpecTwin == Init /\ [][NextTwin]_vars

\* Two callers of one optimizer.
Callers == {1, 2}

\* Samples of concurrent calls: in time and late, steady and spiking.
ConcurrentSamples ==
    { ProductionData(t, g, w, F(5)) :
        t \in {100, 500}, g \in {F(1000), F(7000)}, w \in WaterCuts }

\* A call that has not entered optimize() yet.
Waiting(sample, prev) ==
    [pc |-> "waiting", data |-> sample, previous_rate |-> prev,
     is_valid |-> TRUE, error |-> "None", result |-> None]

\* Two callers hold the optimizer, each with a call to make.
Start ==
    /\ calls = 0
    /\ threads = None
    /\ \E s1 \in ConcurrentSamples, s2 \in ConcurrentSamples,
          p1 \in TwinPreviousRates, p2 \in TwinPreviousRates :
         threads' = [initial |-> optimizer, overlapped |-> FALSE,
                     of |-> <<Waiting(s1, p1), Waiting(s2, p2)>>]
    /\ UNCHANGED <<call_vars, compared, loaded, parsed, handler, serialized, stored, twin, chat, run, records, pair>>

\* A caller moves on; the optimizer is left alone.
Step(i, call) ==
    /\ threads' = [threads EXCEPT !.of[i] = call]
    /\ UNCHANGED <<optimizer, data, previous_rate, result, raw_recommended_gpd, before, calls, compared, loaded, parsed, handler, serialized, stored, twin, chat, run, records, pair>>

\* A caller writes the optimizer's state and moves on.
Write(i, self, pc) ==
    /\ optimizer' = self
    /\ threads' = [threads EXCEPT !.of[i].pc = pc]
    /\ UNCHANGED <<data, previous_rate, result, raw_recommended_gpd, before, calls, compared, loaded, parsed, handler, serialized, stored, twin, chat, run, records, pair>>

\* optimize() is entered: the calls overlap if the other one is under way.
Enter(i) ==
    /\ threads # None
    /\ threads.of[i].pc = "waiting"
    /\ threads' = [threads EXCEPT
            !.of[i].pc = "check",
            !.overlapped = @ \/ threads.of[3 - i].pc \notin {"waiting", "done"}]
    /\ UNCHANGED <<optimizer, data, previous_rate, result, raw_recommended_gpd, before, calls, compared, loaded, parsed, handler, serialized, stored, twin, chat, run, records, pair>>

\* if self._last_data_timestamp:
Check(i) ==
    /\ threads # None
    /\ threads.of[i].pc = "check"
    /\ Step(i, [threads.of[i] EXCEPT !.pc =
            IF Truthy(optimizer.last_data_timestamp) THEN "diff" ELSE "spike"])

\* time_diff = data.timestamp - self._last_data_timestamp, and its test.
Diff(i) ==
    /\ threads # None
    /\ threads.of[i].pc = "diff"
    /\ Step(i,
            IF threads.of[i].data.timestamp - optimizer.last_data_timestamp[1]
                   > NO_DATA_TIMEOUT_SECONDS
            THEN [threads.of[i] EXCEPT !.pc = "return", !.is_valid = FALSE,
                                       !.error = "NO_DATA_TIMEOUT"]
            ELSE [threads.of[i] EXCEPT !.pc = "spike"])

\* The spike filter, on the arguments only.
SpikeFilter(i) ==
    /\ threads # None
    /\ threads.of[i].pc = "spike"
    /\ Step(i,
            IF is_spike(threads.of[i].data, threads.of[i].previous_rate)
            THEN [threads.of[i] EXCEPT !.pc = "return", !.is_valid = FALSE,
                                       !.error = "SPIKE_DETECTED"]
            ELSE [threads.of[i] EXCEPT !.pc = "track"])

\* self._last_data_timestamp = data.timestamp
TrackTimestamp(i) ==
    /\ threads # None
    /\ threads.of[i].pc = "track"
    /\ Write(i, track_timestamp(optimizer, threads.of[i].data), "water_cut")

\* if 0 <= data.water_cut <= 100: self._last_valid_water_cut = data.water_cut
TrackWaterCut(i) ==
    /\ threads # None
    /\ threads.of[i].pc = "water_cut"
    /\ Write(i, track_water_cut(optimizer, threads.of[i].data), "return")

\* optimize() after validate_and_filter returned, up to its return.
Return(i) ==
    /\ threads # None
    /\ threads.of[i].pc = "return"
    /\ \E out \in {after_validation(
                       [is_valid |-> threads.of[i].is_valid,
                        error |-> threads.of[i].error, self |-> optimizer],
                       threads.of[i].data)} :
         Step(i, [threads.of[i] EXCEPT !.pc = "done", !.result = out.result])

NextConcurrent ==
    \/ Start
    \/ \E i \in Callers :
         \/ Enter(i) \/ Check(i) \/ Diff(i) \/ SpikeFilter(i)
         \/ TrackTimestamp(i) \/ TrackWaterCut(i) \/ Return(i)

SpecConcurrent == Init /\ [][NextConcurrent]_vars

\* Max messages per session.
CHAT_RATE_LIMIT == 8

\* timedelta(hours=1), in ticks of the clock.
Hour == 2

\* The last tick of the clock.
MaxNow == 3

\* str.strip(): the message without its leading and trailing blanks.
RECURSIVE StripLeft(_)
StripLeft(message) ==
    IF message # <<>> /\ Head(message) = " " THEN StripLeft(Tail(message))
    ELSE message

RECURSIVE StripRight(_)
StripRight(message) ==
    IF message # <<>> /\ message[Len(message)] = " "
    THEN StripRight(SubSeq(message, 1, Len(message) - 1))
    ELSE message

Strip(message) == StripRight(StripLeft(message))

\* The key of the rate limiter: the digest of "ip:session_id", which tells
\* apart the addresses and session ids used here.
user_hash(user_ip, session_id) == <<user_ip, session_id>>

\* Messages: none, blanks only, and text; session ids of one address.
Messages == {<<>>, <<" ", " ">>, <<" ", "h", "i">>}

SessionIds == {"s1", "s2"}

UserIp == "10.0.0.1"

\* chat_rate_limits[user_hash] = {'count': 0, 'reset_time': now + 1 hour}
Restarted(limits, user, now) ==
    [h \in DOMAIN limits \cup {user} |->
        IF h = user THEN [count |-> 0, reset_time |-> now + Hour] ELSE limits[h]]

\* "Check rate limit", the entries as the check leaves them: a new window
\* for a user not seen before or seen more than an hour ago.
Checked(limits, user, now) ==
    IF user \in DOMAIN limits /\ ~(now > limits[user].reset_time)
    THEN limits ELSE Restarted(limits, user, now)

\* The limit test letting one message more through.
rate_limited_late(limits, user, now) ==
    /\ user \in DOMAIN limits
    /\ ~(now > limits[user].reset_time)
    /\ limits[user].count > CHAT_RATE_LIMIT

\* "Check rate limit", the refusal: the window is open and full.
rate_limited(limits, user, now) ==
    /\ user \in DOMAIN limits
    /\ ~(now > limits[user].reset_time)
    /\ limits[user].count >= CHAT_RATE_LIMIT

\* chat_rate_limits[user_hash]['count'] += 1
Incremented(limits, user) ==
    [limits EXCEPT ![user].count = @ + 1]

\* The three kinds of response.
MessageRequired ==
    [status |-> 400, success |-> FALSE, rate_limited |-> FALSE,
     remaining_messages |-> None]

RateLimitExceeded ==
    [status |-> 429, success |-> FALSE, rate_limited |-> TRUE,
     remaining_messages |-> None]

Answered(remaining_messages) ==
    [status |-> 200, success |-> TRUE, rate_limited |-> FALSE,
     remaining_messages |-> remaining_messages]

\* What a request does to the rate limiter, and its response.
Served(limits, user, message, now) ==
    IF Strip(message) = <<>>
    THEN [limits |-> limits, response |-> MessageRequired]
    ELSE IF rate_limited(limits, user, now)
    THEN [limits |-> limits, response |-> RateLimitExceeded]
    ELSE [limits |-> Incremented(Checked(limits, user, now), user),
          response |-> Answered(CHAT_RATE_LIMIT -
              Incremented(Checked(limits, user, now), user)[user].count)]

\* chat_rate_limits = {} as the module is loaded.
Boot ==
    /\ chat = None
    /\ chat' = [limits |-> <<>>, now |-> 0, at |-> 0, user |-> None,
                message |-> None, response |-> None, before |-> <<>>]
    /\ UNCHANGED <<call_vars, compared, loaded, parsed, handler, serialized, stored, twin, threads, run, records, pair>>

\* datetime.now() moves on between requests.
Tick ==
    /\ chat # None
    /\ chat.now < MaxNow
    /\ chat' = [chat EXCEPT !.now = @ + 1]
    /\ UNCHANGED <<call_vars, compared, loaded, parsed, handler, serialized, stored, twin, threads, run, records, pair>>

\* POST /api/chat
Chat ==
    /\ chat # None
    /\ \E session_id \in SessionIds, message \in Messages :
         \E out \in {Served(chat.limits, user_hash(UserIp, session_id),
                            message, chat.now)} :
             chat' = [limits |-> out.limits, now |-> chat.now, at |-> chat.now,
                      user |-> user_hash(UserIp, session_id),
                      message |-> message, response |-> out.response,
                      before |-> chat.limits]
    /\ UNCHANGED <<call_vars, compared, loaded, parsed, handler, serialized, stored, twin, threads, run, records, pair>>

NextChat == Boot \/ Tick \/ Chat

SpecChat == InitLoader /\ [][NextChat]_vars

\* The number of optimize() calls of one run of a driver.
MaxRun == 3

\* Samples of a run: in time, late by 301 s and later, with and without
\* flow, steady and spiking.
RunSamples ==
    { ProductionData(t, g, F(80), F(5)) :
        t \in {100, 401, 402, 800}, g \in {Zero, F(1000), F(7000)} }

\* No call of the run has returned NO_DATA.
NoGap == [stale_at |-> None, last |-> None, ordered |-> TRUE]

\* What is remembered of a run after a call on a sample at timestamp with
\* the given status: the timestamp of the first NO_DATA sample, and whether
\* no sample since was older than the one before it.
Followed(gap, timestamp, status_flag) ==
    IF gap.stale_at = None
    THEN IF status_flag = NO_DATA
         THEN [stale_at |-> <<timestamp>>, last |-> <<timestamp>>, ordered |-> TRUE]
         ELSE gap
    ELSE [gap EXCEPT !.last = <<timestamp>>,
                     !.ordered = @ /\ timestamp >= gap.last[1]]

\* One call of the run, on the optimizer of the run.
Feed ==
    /\ calls < MaxRun
    /\ \E sample \in RunSamples, prev \in TwinPreviousRates :
         /\ Invoke(sample, prev)
         /\ run' = Followed(IF run = None THEN NoGap ELSE run,
                            sample.timestamp, result'.status_flag)
    /\ UNCHANGED <<compared, loaded, parsed, handler, serialized, stored, twin, threads, chat, records, pair>>

NextRun == Feed

SpecRun == Init /\ [][NextRun]_vars

\* One /api/optimize request of a sequence of them for one well: a new
\* optimizer with the settings of the well, and one call on it without
\* previous rate.
Request ==
    /\ calls < MaxCalls
    /\ \E sample \in Samples :
         \E out \in {optimize(ChemicalOptimizer(optimizer.settings), sample, None)} :
             /\ optimizer' = out.self
             /\ result' = out.result
             /\ raw_recommended_gpd' = out.raw_recommended_gpd
             /\ data' = sample
             /\ previous_rate' = None
             /\ before' = ChemicalOptimizer(optimizer.settings)
             /\ calls' = calls + 1
    /\ UNCHANGED others

NextRequests == Request

SpecRequests == Init /\ [][NextRequests]_vars

\* Flow rates of the records of a run: no flow, 205.235 and six times as
\* much, 1000 and seven times as much.
LoopRates == {Zero, Dec(205235, 3), F(1000), Dec(123141, 2), F(7000)}

LoopRecords ==
    { RawRecord(t, [gross_fluid_rate |-> g, water_cut |-> F(60),
                    current_injection_rate |-> F(5)]) :
        t \in {100, 500}, g \in LoopRates }

\* The body of "for record in records" of lambda_handler, for a run of up
\* to MaxRun records.
Process ==
    /\ calls < MaxRun
    /\ handler.response = None
    /\ IF records = None THEN TRUE ELSE records[1].driver = "lambda_handler"
    /\ \E record \in LoopRecords :
         \E sample \in {from_record(record, handler.last_valid_water_cut)} :
            /\ Invoke(sample, handler.previous_rate)
            /\ parsed' = [record |-> record,
                           last_valid_water_cut |-> handler.last_valid_water_cut,
                           data |-> sample]
            /\ handler' = [previous_rate |->
                                gross_fluid_rate_seen(sample, result', handler.previous_rate),
                            last_valid_water_cut |->
                                IF FLe(Zero, sample.water_cut) /\ FLe(sample.water_cut, F(100))
                                THEN sample.water_cut ELSE handler.last_valid_water_cut,
                            results |-> Append(handler.results, result'),
                            response |-> None]
            /\ records' = Append(records, [driver |-> "lambda_handler", data |-> sample,
                                            status_flag |-> result'.status_flag])
    /\ UNCHANGED <<compared, loaded, serialized, stored, twin, threads, chat, run, pair>>

\* The body of "for record in records" of batch_optimize, which starts
\* without a previous rate: the sample is built from the fields of the
\* record (numbers, which int() and float() keep), and the result is
\* appended as a dictionary, so that a result whose to_dict() raises ends
\* the loop with the error response.
ProcessBatch ==
    /\ calls < MaxRun
    /\ handler.response = None
    /\ IF records = None THEN handler.previous_rate = None
       ELSE records[1].driver = "batch_optimize"
    /\ \E record \in LoopRecords :
         \E sample \in {ProductionData(Get(record, "timestamp", 0),
                                       Get(record, "gross_fluid_rate", Zero),
                                       Get(record, "water_cut", Zero),
                                       Get(record, "current_injection_rate", Zero))} :
            /\ Invoke(sample, handler.previous_rate)
            /\ parsed' = [record |-> record, data |-> sample]
            /\ \E out \in {to_dict(result')} :
                 handler' =
                    IF Raised(out)
                    THEN [handler EXCEPT !.response = [success |-> FALSE]]
                    ELSE [handler EXCEPT
                            !.results = Append(handler.results, out),
                            !.previous_rate =
                                gross_fluid_rate_seen(sample, result', handler.previous_rate)]
            /\ records' = Append(records, [driver |-> "batch_optimize", data |-> sample,
                                            status_flag |-> result'.status_flag])
    /\ UNCHANGED <<compared, loaded, serialized, stored, twin, threads, chat, run, pair>>

NextLoop == Process \/ ProcessBatch

SpecLoop == InitStream /\ [][NextLoop]_vars

\* Raw settings records of valid configurations (active_intensity >= 1,
\* chemical_density > 0, min_pump_rate <= max_pump_rate): absent, a product
\* of which 1% is active, a diluted denser chemical with narrow limits,
\* limits that meet above the recommendation and below it, and a target
\* of 0.
ValidRawSettings ==
    { None,
      [active_intensity |-> F(1)],
      [target_ppm |-> F(100), chemical_density |-> Dec(12, 1),
       active_intensity |-> F(50), min_pump_rate |-> F(6),
       max_pump_rate |-> F(35)],
      [min_pump_rate |-> F(10), max_pump_rate |-> F(10)],
      [min_pump_rate |-> F(1), max_pump_rate |-> F(5)],
      [target_ppm |-> Zero] }

\* Samples as ProductionData(...) takes them: in and out of time, without
\* flow and with it, a water cut in range, out of range and not a number.
PairSamples ==
    { ProductionData(t, g, w, F(5)) :
        t \in {100, 401}, g \in {Zero, F(1000), F(7000)},
        w \in {F(80), F(150), NaN} }

PairPreviousRates == {None, F(1000)}

\* One ChemicalOptimizer of each module for the settings of a well.
ConstructBoth ==
    /\ pair = None
    /\ \E raw \in ValidRawSettings :
         \E settings \in {from_database(raw)} :
            pair' = [primary |-> ChemicalOptimizer(settings),
                     prod |-> ChemicalOptimizer_prod(settings),
                     calls |-> 0, data |-> None, previous_rate |-> None,
                     results |-> None]
    /\ UNCHANGED <<call_vars, compared, loaded, parsed, handler, serialized, stored, twin, threads, chat, run, records>>

\* The same optimize() call on both.
OptimizeBoth ==
    /\ pair # None
    /\ pair.calls < MaxRun
    /\ \E sample \in PairSamples, prev \in PairPreviousRates :
         \E a \in {optimize(pair.primary, sample, prev)},
            b \in {optimize_prod(pair.prod, sample, prev)} :
            pair' = [primary |-> a.self, prod |-> b.self,
                     calls |-> pair.calls + 1,
                     data |-> sample, previous_rate |-> prev,
                     results |-> [primary |-> a.result, prod |-> b.result]]
    /\ UNCHANGED <<call_vars, compared, loaded, parsed, handler, serialized, stored, twin, threads, chat, run, records>>

NextBoth == ConstructBoth \/ OptimizeBoth

SpecBoth == Init /\ [][NextBoth]_vars

\* /api/optimize: 'result': result.to_dict() of the result just computed.
Serialize ==
    /\ calls > 0
    /\ serialized = None
    /\ \E out \in {to_dict(result)} :
         serialized' = [result |-> result, mapping |-> out]
    /\ UNCHANGED <<call_vars, compared, loaded, parsed, handler, stored, twin, threads, chat, run, records, pair>>

\* save_optimization_result of lambda_function_prod: "data": result.to_dict()
Store ==
    /\ calls > 0
    /\ stored = None
    /\ \E out \in {to_dict_prod(result)} :
         stored' = [result |-> result, mapping |-> out]
    /\ UNCHANGED <<call_vars, compared, loaded, parsed, handler, serialized, twin, threads, chat, run, records, pair>>

NextSerialize == Optimize \/ Serialize \/ Store

SpecSerialize == Init /\ [][NextSerialize]_vars

\* -------------------------------------------------------------------------
\* Vocabulary of the properties, stated from the specification on the last
\* call: its sample (data), its previous_rate, the optimizer before and
\* after it, and its result.
\* -------------------------------------------------------------------------

Called == calls > 0

\* The sample is a pump-off sample / a sample of a flowing well.
PumpOffSample == ~data.pump_status \/ FLe(data.gross_fluid_rate, Zero)

Flowing == data.pump_status /\ FGt(data.gross_fluid_rate, Zero)

\* A timestamp was recorded before the call and the sample is more than
\* 300 seconds later.
Stale ==
    /\ before.last_data_timestamp # None
    /\ data.timestamp - before.last_data_timestamp[1] > 300

\* |current - previous| / previous * 100 exceeds 500, for a supplied
\* previous rate > 0.
Spike ==
    /\ previous_rate # None
    /\ FGt(previous_rate, Zero)
    /\ FGt(FMul(FDiv(FAbs(FSub(data.gross_fluid_rate, previous_rate)),
                     previous_rate), F(100)), F(500))

\* The derived numeric fields of the result are all null.
NumericFieldsNull ==
    /\ result.recommended_rate_gpd = None
    /\ result.savings_opportunity_usd = None
    /\ result.water_bpd = None
    /\ result.current_ppm = None

InRange(water_cut) == FLe(Zero, water_cut) /\ FLe(water_cut, F(100))

\* The carried state (last-seen timestamp, last-valid water cut) is as it
\* was before the call.
StateUnchanged ==
    /\ optimizer.last_data_timestamp = before.last_data_timestamp
    /\ optimizer.last_valid_water_cut = before.last_valid_water_cut

\* The carried state is as the state update of step 4 leaves it.
StateUpdated ==
    /\ optimizer.last_data_timestamp = <<data.timestamp>>
    /\ optimizer.last_valid_water_cut =
           IF InRange(data.water_cut) THEN data.water_cut
           ELSE before.last_valid_water_cut

\* -------------------------------------------------------------------------
\* Properties of the stream of calls (Spec)
\* -------------------------------------------------------------------------

\* C1: a call on a sample with pump_status false or gross_fluid_rate <= 0
\* returns PUMP_OFF with recommended_rate = 0, water_volume = 0,
\* current_ppm = 0 and savings_or_waste = current_injection_rate *
\* cost_per_gallon, whatever the settings, the carried state (a stale
\* timestamp included) and previous_rate (a spike included); never NO_DATA
\* or ERROR.
C1_PumpOffResult ==
    (Called /\ PumpOffSample) =>
        /\ result.status_flag = PUMP_OFF
        /\ result.recommended_rate_gpd = Zero
        /\ result.water_bpd = Zero
        /\ result.current_ppm = Zero
        /\ result.savings_opportunity_usd =
               FMul(data.current_injection_rate, optimizer.settings.cost_per_gallon)

\* A pump-off sample that is stale and counts as a spike.
C1_Witness ==
    /\ Called /\ PumpOffSample /\ Stale /\ Spike
    /\ result.status_flag = PUMP_OFF

\* C2: for a sample of a flowing well, the result is NO_DATA with null
\* numeric fields exactly when a timestamp was recorded (any value, 0
\* included) and the sample is more than 300 s later; a gap of exactly
\* 300 s is not stale and a fresh optimizer never returns NO_DATA.
C2_NoDataIffStale ==
    (Called /\ Flowing) =>
        ((result.status_flag = NO_DATA /\ NumericFieldsNull) <=> Stale)

C4_RejectedLeavesState ==
    (Called /\ result.status_flag \in {NO_DATA, ERROR}) => StateUnchanged

\* A stale sample whose timestamp and (valid) water cut both differ from
\* the carried ones.
C4_Witness ==
    /\ Called /\ result.status_flag = NO_DATA
    /\ before.last_data_timestamp # <<data.timestamp>>
    /\ InRange(data.water_cut)
    /\ before.last_valid_water_cut # data.water_cut

\* C5 as stated: a call on a pump-off sample leaves the last-seen timestamp
\* and the last-valid water cut unchanged.
C5_PumpOffLeavesState ==
    (Called /\ PumpOffSample) => StateUnchanged

\* C5 as amended: the pump-off short-circuit decides the result only;
\* validation runs before it, so a pump-off sample that is neither stale
\* nor a spike is recorded like any accepted sample.
C5_PumpOffIsRecorded ==
    (Called /\ PumpOffSample /\ ~Stale /\ ~Spike) =>
        /\ result.status_flag = PUMP_OFF
        /\ StateUpdated

\* A pump-off sample after which the carried timestamp and water cut have
\* changed.
C5_Witness ==
    /\ Called /\ PumpOffSample /\ ~Stale /\ ~Spike
    /\ result.status_flag = PUMP_OFF
    /\ optimizer.last_data_timestamp # before.last_data_timestamp
    /\ optimizer.last_valid_water_cut # before.last_valid_water_cut

\* C6: after a call on a sample that is neither pump-off, stale nor spike
\* the last-seen timestamp is the sample's and the last-valid water cut is
\* the sample's if that is in [0,100], unchanged otherwise; the last-valid
\* water cut is in [0,100] in every reachable state, 50 initially.
C6_StateUpdate ==
    /\ (Called /\ Flowing /\ ~Stale /\ ~Spike) => StateUpdated
    /\ InRange(optimizer.last_valid_water_cut)
    /\ ~Called => optimizer.last_valid_water_cut = F(50)

\* An accepted sample with water cut 150 on an optimizer carrying 80.
C6_Witness ==
    /\ Called /\ Flowing /\ ~Stale /\ ~Spike
    /\ ~InRange(data.water_cut)
    /\ before.last_valid_water_cut = F(80)
    /\ optimizer.last_valid_water_cut = F(80)
    /\ optimizer.last_data_timestamp = <<data.timestamp>>

\* The derived numeric fields of the result are all present.
NumericFieldsPresent ==
    /\ result.recommended_rate_gpd # None
    /\ result.savings_opportunity_usd # None
    /\ result.water_bpd # None
    /\ result.current_ppm # None

MappingFieldsNull(mapping) ==
    /\ mapping.recommended_rate_gpd = None
    /\ mapping.savings_opportunity_usd = None
    /\ mapping.water_bpd = None
    /\ mapping.current_ppm = None

\* The fields of a mapping that every result carries are those of the result.
MappingFieldsKept(mapping, of) ==
    /\ mapping.timestamp = of.timestamp
    /\ mapping.actual_rate_gpd = Round(of.actual_rate_gpd, 3)
    /\ mapping.status_flag = of.status_flag
    /\ mapping.target_ppm = of.target_ppm

\* to_dict() of a NO_DATA or ERROR result completed and left the derived
\* fields null.
DataQualitySerialized(call) ==
    call # None /\ call.result.status_flag \in {NO_DATA, ERROR} =>
        /\ ~Raised(call.mapping)
        /\ MappingFieldsNull(call.mapping)
        /\ MappingFieldsKept(call.mapping, call.result)

\* C18: to_dict() applied to a result with status NO_DATA or ERROR completes
\* without error and yields a mapping in which recommended_rate_gpd,
\* savings_opportunity_usd, water_bpd and current_ppm are null while
\* timestamp, actual_rate_gpd, status_flag and target_ppm are present.
C18_DataQualitySerialized ==
    DataQualitySerialized(serialized) /\ DataQualitySerialized(stored)

\* One field of a mapping is not null, and is 0 where the result has 0.
ZeroKept(value, of) == value # None /\ (of = Zero => value = Zero)

\* to_dict() of a result with a recommendation left no derived field null.
ZeroSerialized(call) ==
    call # None /\ call.result.status_flag \notin {NO_DATA, ERROR} =>
        /\ ~Raised(call.mapping)
        /\ ZeroKept(call.mapping.recommended_rate_gpd, call.result.recommended_rate_gpd)
        /\ ZeroKept(call.mapping.savings_opportunity_usd, call.result.savings_opportunity_usd)
        /\ ZeroKept(call.mapping.water_bpd, call.result.water_bpd)
        /\ ZeroKept(call.mapping.current_ppm, call.result.current_ppm)

\* C19: to_dict() applied to a result whose status is PUMP_OFF, OPTIMAL,
\* OVER_DOSING or UNDER_DOSING yields non-null recommended_rate_gpd,
\* savings_opportunity_usd, water_bpd and current_ppm; the value 0 is
\* serialized as 0 and not as null.
C19_ZeroDistinctFromNull ==
    ZeroSerialized(serialized) /\ ZeroSerialized(stored)

\* -------------------------------------------------------------------------
\* Properties of the dosing calculation (SpecDosing)
\* -------------------------------------------------------------------------

\* The call ran the whole pipeline: a flowing well, no validation error.
FullPath == Called /\ Flowing /\ result.status_flag \notin {NO_DATA, ERROR}

\* (current_injection_rate - recommended_rate) / recommended_rate * 100 of
\* the result, for a recommended rate > 0.
DiffPercent ==
    FMul(FDiv(FSub(result.actual_rate_gpd, result.recommended_rate_gpd),
              result.recommended_rate_gpd), F(100))

Recommends == FGt(result.recommended_rate_gpd, Zero)

\* C7: on the full path the status is OVER_DOSING iff recommended_rate > 0
\* and diff_percent > 10, UNDER_DOSING iff recommended_rate > 0 and
\* diff_percent < -10, OPTIMAL iff recommended_rate > 0 and
\* -10 <= diff_percent <= 10, and PUMP_OFF iff the post-constraint
\* recommended_rate <= 0.
C7_StatusClassification ==
    FullPath =>
        /\ result.status_flag = OVER_DOSING <=>
               (Recommends /\ FGt(DiffPercent, F(10)))
        /\ result.status_flag = UNDER_DOSING <=>
               (Recommends /\ FLt(DiffPercent, F(-10)))
        /\ result.status_flag = OPTIMAL <=>
               (Recommends /\ FLe(F(-10), DiffPercent) /\ FLe(DiffPercent, F(10)))
        /\ result.status_flag = PUMP_OFF <=>
               FLe(result.recommended_rate_gpd, Zero)

\* An injection rate exactly 10% above the recommended one is OPTIMAL.
C7_Witness ==
    /\ FullPath /\ Recommends
    /\ DiffPercent = F(10)
    /\ result.status_flag = OPTIMAL

\* The raw recommendation of step 3 was computed and is positive.
RawPositive == raw_recommended_gpd # None /\ FGt(raw_recommended_gpd, Zero)

\* r lies in [min_pump_rate, max_pump_rate].
WithinLimits(r) ==
    /\ FLe(optimizer.settings.min_pump_rate, r)
    /\ FLe(r, optimizer.settings.max_pump_rate)

C9_FinancialImpact ==
    (FullPath /\ ~NumericFieldsNull) =>
        /\ result.savings_opportunity_usd =
               FMul(FSub(data.current_injection_rate, result.recommended_rate_gpd),
                    optimizer.settings.cost_per_gallon)
        /\ (FGt(optimizer.settings.cost_per_gallon, Zero)
               /\ result.status_flag = OVER_DOSING)
               => FGt(result.savings_opportunity_usd, Zero)
        /\ (FGt(optimizer.settings.cost_per_gallon, Zero)
               /\ result.status_flag = UNDER_DOSING)
               => FLt(result.savings_opportunity_usd, Zero)

\* An under-dosing result with a priced chemical other than the default.
C9_Witness ==
    /\ FullPath
    /\ optimizer.settings.cost_per_gallon = Dec(25, 1)
    /\ result.status_flag = UNDER_DOSING
    /\ FLt(result.savings_opportunity_usd, Zero)

\* A valid configuration: target_ppm > 0, chemical_density > 0,
\* 0 < active_intensity <= 100, min_pump_rate <= max_pump_rate.
ValidConfiguration ==
    /\ optimizer.settings.target_ppm > 0
    /\ FGt(optimizer.settings.chemical_density, Zero)
    /\ FGt(optimizer.settings.active_intensity, Zero)
    /\ FLe(optimizer.settings.active_intensity, F(100))
    /\ FLe(optimizer.settings.min_pump_rate, optimizer.settings.max_pump_rate)

\* The rounding tolerance of the round trip, relative to the target.
Tolerance == Dec(1, 4)

Close(a, b) == FLe(FAbs(FSub(a, b)), FMul(Tolerance, FAbs(b)))

\* The reverse ppm calculation applied to the recommended rate just
\* returned.
RoundTrip ==
    calculate_current_ppm(
        optimizer,
        [data EXCEPT !.current_injection_rate = result.recommended_rate_gpd],
        result.water_bpd)

RoundTripCase ==
    /\ FullPath /\ ValidConfiguration
    /\ FGt(result.water_bpd, Zero)

\* C10 as stated: for a valid configuration and water_volume > 0 the
\* round trip reproduces target_ppm within the rounding tolerance.
C10_RoundTripAlways ==
    RoundTripCase => Close(RoundTrip, F(optimizer.settings.target_ppm))

\* C10 as amended: the round trip reproduces target_ppm when the
\* recommended rate is the raw one (step 4 did not clamp it); when step 4
\* clamped it, the round trip gives target_ppm * recommended / raw.
C10_RoundTripUnclamped ==
    RoundTripCase =>
        /\ result.recommended_rate_gpd = raw_recommended_gpd
               => Close(RoundTrip, F(optimizer.settings.target_ppm))
        /\ Close(RoundTrip,
                 FMul(F(optimizer.settings.target_ppm),
                      FDiv(result.recommended_rate_gpd, raw_recommended_gpd)))

\* An unclamped recommendation for a diluted chemical.
C10_Witness ==
    /\ RoundTripCase
    /\ optimizer.settings.active_intensity = F(50)
    /\ result.recommended_rate_gpd = raw_recommended_gpd
    /\ Close(RoundTrip, F(optimizer.settings.target_ppm))

\* -------------------------------------------------------------------------
\* Properties of two dosing calculations that differ in the injection rate
\* (SpecCompare)
\* -------------------------------------------------------------------------

\* Both calculations recommend a rate > 0 (the same one), the first for
\* the smaller injection rate.
ComparedAscending ==
    /\ Called /\ compared # None
    /\ FullPath /\ Recommends
    /\ FLt(result.actual_rate_gpd, compared.actual_rate_gpd)

ComparedDiffPercent ==
    FMul(FDiv(FSub(compared.actual_rate_gpd, compared.recommended_rate_gpd),
              compared.recommended_rate_gpd), F(100))

\* UNDER_DOSING < OPTIMAL < OVER_DOSING
Rank(status) ==
    IF status = UNDER_DOSING THEN 0 ELSE IF status = OPTIMAL THEN 1 ELSE 2

\* C11 as stated: with the configuration, gross_fluid_rate and water_cut
\* fixed and recommended_rate > 0, injection rates a < b give
\* diff_percent(a) < diff_percent(b), and the status for b is never lower
\* than the status for a.
C11_StrictlyMonotone ==
    ComparedAscending =>
        /\ compared.recommended_rate_gpd = result.recommended_rate_gpd
        /\ FLt(DiffPercent, ComparedDiffPercent)
        /\ Rank(result.status_flag) <= Rank(compared.status_flag)

\* C11 as amended: diff_percent(a) <= diff_percent(b), the two being equal
\* when rounding absorbs the difference between a and b, and the status
\* for b is never lower than the status for a.
C11_Monotone ==
    ComparedAscending =>
        /\ compared.recommended_rate_gpd = result.recommended_rate_gpd
        /\ FLe(DiffPercent, ComparedDiffPercent)
        /\ result.status_flag \in {UNDER_DOSING, OPTIMAL, OVER_DOSING}
        /\ compared.status_flag \in {UNDER_DOSING, OPTIMAL, OVER_DOSING}
        /\ Rank(result.status_flag) <= Rank(compared.status_flag)

\* The smaller injection rate under-doses, the larger one over-doses.
C11_Witness ==
    /\ ComparedAscending
    /\ FLt(DiffPercent, ComparedDiffPercent)
    /\ result.status_flag = UNDER_DOSING
    /\ compared.status_flag = OVER_DOSING

\* -------------------------------------------------------------------------
\* Properties of the dosing calculation under any configuration
\* (SpecAnyConfig)
\* -------------------------------------------------------------------------

\* C12: for every configuration the loader can produce (a density of 0 or
\* below, an intensity <= 0, a target <= 0, crossed pump limits) and every
\* sample, optimize() raises nothing and returns a result whose status is
\* one of the six outcomes.
C12_NeverRaises ==
    Called => (~Raised(result) /\ result.status_flag \in StatusFlag)

\* -------------------------------------------------------------------------
\* Properties of the configuration loader (SpecLoader)
\* -------------------------------------------------------------------------

Defaults == from_database(None)

\* The field of the raw mapping is a number the loader can take.
Usable(raw, field) == field \in DOMAIN raw /\ Number(raw[field])

\* C13: the loader never fails; an absent or empty mapping gives the
\* defaults (200, 1.0, 100.0, 10.0, 0.5, 50.0), and a field that is missing
\* or cannot be parsed as a number takes its default while the other
\* fields keep their supplied values.
C13_LoaderNeverFails ==
    /\ Defaults = [target_ppm |-> 200, chemical_density |-> F(1),
                   active_intensity |-> F(100), cost_per_gallon |-> F(10),
                   min_pump_rate |-> Dec(5, 1), max_pump_rate |-> F(50)]
    /\ loaded # None =>
        /\ ~Raised(loaded.settings)
        /\ \A field \in DOMAIN Defaults \ {"target_ppm"} :
               loaded.settings[field] =
                   IF Usable(loaded.raw, field) THEN loaded.raw[field]
                   ELSE Defaults[field]
        /\ loaded.settings.target_ppm =
               IF Usable(loaded.raw, "target_ppm")
               THEN Trunc(loaded.raw.target_ppm) ELSE Defaults.target_ppm

\* -------------------------------------------------------------------------
\* Properties of the sample constructor (SpecRecord)
\* -------------------------------------------------------------------------

\* The measurement the record supplies, if it supplies a number.
Measured(record, field) == field \in DOMAIN record /\ Number(record[field])

ZeroUnlessMeasured(record, field) ==
    IF Measured(record, field) THEN record[field] ELSE Zero

\* C14: from_record always produces a sample: a water_cut that is absent,
\* not a number or outside [0,100] is replaced by the last valid water cut
\* supplied, a gross_fluid_rate or current_injection_rate that is missing
\* or not a number becomes 0, pump_status is true iff gross_fluid_rate > 0,
\* and with a last valid value in [0,100] the water_cut is in [0,100].
C14_SampleAlwaysBuilt ==
    parsed # None =>
        /\ ~Raised(parsed.data)
        /\ parsed.data.gross_fluid_rate =
               ZeroUnlessMeasured(parsed.record, "gross_fluid_rate")
        /\ parsed.data.current_injection_rate =
               ZeroUnlessMeasured(parsed.record, "current_injection_rate")
        /\ parsed.data.water_cut =
               IF Measured(parsed.record, "water_cut") /\ InRange(parsed.record.water_cut)
               THEN parsed.record.water_cut ELSE parsed.last_valid_water_cut
        /\ parsed.data.pump_status <=> FGt(parsed.data.gross_fluid_rate, Zero)
        /\ InRange(parsed.data.water_cut)

\* -------------------------------------------------------------------------
\* Properties of the stream handler (SpecStream)
\* -------------------------------------------------------------------------

\* C15: at every iteration of the handler's loop the last valid water cut
\* passed to the sample constructor is the one the optimizer carries,
\* whatever the records before it (rejected and pump-off ones included).
C15_ForwardFillFromOptimizer ==
    Called => parsed.last_valid_water_cut = before.last_valid_water_cut

\* C16: the handler calls optimize() once per record, in order, on one
\* optimizer, passing the gross_fluid_rate of the record before (the cached
\* value or nothing for the first), and answers with a successful response
\* holding one result per record in the same order, whatever the statuses
\* of the results.
C16_OneResultPerRecord ==
    /\ Len(handler.results) = calls
    /\ Called =>
        /\ handler.results[calls] = result
        /\ handler.previous_rate = data.gross_fluid_rate
        /\ data = parsed.data
    /\ handler.response # None =>
        /\ handler.response.status = "success"
        /\ handler.response.processed = calls
        /\ Called =>
            /\ Len(handler.response.results) = calls
            /\ \A i \in 1..calls :
                   /\ handler.response.results[i].timestamp = handler.results[i].timestamp
                   /\ handler.response.results[i].status_flag = handler.results[i].status_flag

\* Candidate floors of the intensity factor, all of them small fractions of
\* the full strength 1.0.
SmallFloors == {Dec(1, 6), Dec(1, 4), Dec(1, 3), Dec(1, 2), Dec(5, 2), Dec(1, 1)}

\* The required volume was computed from a water volume > 0.
Required ==
    /\ Called /\ raw_recommended_gpd # None
    /\ ~Raised(raw_recommended_gpd)
    /\ FGt(result.water_bpd, Zero)

\* The required volume is the one step 3 gives with the intensity factor
\* max(active_intensity / 100, f).
FlooredAt(f) ==
    raw_recommended_gpd =
        volume_gallons(optimizer, result.water_bpd,
                       FMax(FDiv(optimizer.settings.active_intensity, F(100)), f))

\* C20: the intensity factor used in the required-chemical-volume step is
\* max(active_intensity / 100, f) for one small positive floor f, so for an
\* active_intensity <= 0 the factor is f; the required volume is positive
\* whenever water_volume > 0, target_ppm > 0 and chemical_density > 0.
C20_IntensityFloor ==
    Required =>
        /\ \E f \in SmallFloors : FlooredAt(f)
        /\ (optimizer.settings.target_ppm > 0
              /\ FGt(optimizer.settings.chemical_density, Zero))
            => FGt(raw_recommended_gpd, Zero)

BothDone == threads # None /\ \A i \in Callers : threads.of[i].pc = "done"

\* The two results and the last-seen timestamp the optimizer ends with.
Outcome ==
    <<threads.of[1].result, threads.of[2].result, optimizer.last_data_timestamp>>

\* The same, for the call of caller i made first and that of j second,
\* one at a time.
InTurn(first, i, j) ==
    LET second == optimize(first.self, threads.of[j].data,
                           threads.of[j].previous_rate)
    IN  IF i = 1
        THEN <<first.result, second.result, second.self.last_data_timestamp>>
        ELSE <<second.result, first.result, second.self.last_data_timestamp>>

Serial(i, j) ==
    InTurn(optimize(threads.initial, threads.of[i].data,
                    threads.of[i].previous_rate), i, j)

\* C22: with the two calls executed one at a time, the two results and the
\* final last-seen timestamp are those of one of the two sequential orders.
C22_OneAtATimeIsSerial ==
    BothDone /\ ~threads.overlapped => Outcome \in {Serial(1, 2), Serial(2, 1)}

\* C22, the lost update: two calls that interleave between the staleness
\* read and the state write end with results and a last-seen timestamp that
\* neither sequential order produces.
C22_Witness ==
    /\ BothDone /\ threads.overlapped
    /\ Outcome \notin {Serial(1, 2), Serial(2, 1)}

\* The scenario: the default configuration and a sample of 1000 bbl/day at
\* a water cut of 80% with 5.0 gal/day injected.
Scenario ==
    /\ Called
    /\ optimizer.settings = from_database(None)
    /\ data.gross_fluid_rate = F(1000)
    /\ data.water_cut = F(80)
    /\ data.current_injection_rate = F(5)

\* lo <= x <= hi
Between(x, lo, hi) == FLe(lo, x) /\ FLe(x, hi)

\* C23: with the default configuration, a fresh optimizer and a sample with
\* gross_fluid_rate = 1000, water_cut = 80, current_injection_rate = 5.0,
\* optimize() returns water_volume = 800, an unclamped recommended rate
\* between 6.70 and 6.72, savings between -17.2 and -17.0, and status
\* UNDER_DOSING.
C23_Scenario ==
    Scenario =>
        /\ result.water_bpd = F(800)
        /\ Between(result.recommended_rate_gpd, Dec(670, 2), Dec(672, 2))
        /\ result.recommended_rate_gpd = raw_recommended_gpd
        /\ Between(result.savings_opportunity_usd, Dec(-172, 1), Dec(-170, 1))
        /\ result.status_flag = UNDER_DOSING

\* The scenario, with the figures the spec rounds: 6.71 and -17.1.
C23_Witness ==
    /\ Scenario
    /\ Round(result.recommended_rate_gpd, 2) = Dec(671, 2)
    /\ Round(result.savings_opportunity_usd, 1) = Dec(-171, 1)
    /\ result.status_flag = UNDER_DOSING

\* C24: the short-circuits take precedence in the order PUMP_OFF, NO_DATA,
\* ERROR: a sample of a flowing well that is both stale (more than 300 s
\* after the recorded timestamp) and a spike returns NO_DATA, not ERROR.
C24_CheckOrder ==
    Called =>
        /\ PumpOffSample => result.status_flag = PUMP_OFF
        /\ Flowing /\ Stale /\ Spike => result.status_flag = NO_DATA
        /\ Flowing /\ Stale => result.status_flag # ERROR
        /\ Flowing /\ ~Stale /\ Spike => result.status_flag = ERROR

\* A request was served, by a user with an entry from before it or not.
Requested == chat # None /\ chat.response # None

Known == chat.user \in DOMAIN chat.before

\* The window of the user's entry was still open at the request.
WindowOpen == Known /\ ~(chat.at > chat.before[chat.user].reset_time)

\* C25: for one user hash and sequential requests, the stored count is
\* always in 0..8; a non-empty message is accepted while the window holds
\* fewer than 8, with remaining_messages in 0..7, and counted; with 8 in an
\* open window it is answered 429 with rate_limited and the entry is left
\* as it was; an empty message never changes the entry; once now >
\* reset_time the next message restarts the count in a new one-hour window.
C25_ChatRateLimit ==
    chat # None =>
        /\ \A h \in DOMAIN chat.limits :
               chat.limits[h].count \in 0..CHAT_RATE_LIMIT
        /\ Requested =>
            /\ \A h \in DOMAIN chat.before \ {chat.user} :
                   chat.limits[h] = chat.before[h]
            /\ Strip(chat.message) = <<>> =>
                   chat.limits = chat.before /\ chat.response.status = 400
            /\ chat.response.status = 429 <=>
                   /\ Strip(chat.message) # <<>>
                   /\ WindowOpen
                   /\ chat.before[chat.user].count = CHAT_RATE_LIMIT
            /\ chat.response.status = 429 =>
                   chat.response.rate_limited /\ chat.limits = chat.before
            /\ chat.response.status = 200 =>
                   /\ chat.response.remaining_messages \in 0..(CHAT_RATE_LIMIT - 1)
                   /\ chat.response.remaining_messages =
                          CHAT_RATE_LIMIT - chat.limits[chat.user].count
                   /\ chat.limits[chat.user] =
                          IF WindowOpen
                          THEN [chat.before[chat.user] EXCEPT !.count = @ + 1]
                          ELSE [count |-> 1, reset_time |-> chat.at + Hour]

\* A window was filled and has run out: the next message is accepted and
\* counted as the first of a new window.
C25_Witness ==
    /\ Requested
    /\ chat.response.status = 200
    /\ Known /\ ~WindowOpen
    /\ chat.before[chat.user].count = CHAT_RATE_LIMIT
    /\ chat.limits[chat.user] = [count |-> 1, reset_time |-> chat.at + Hour]

\* A call of the run returned NO_DATA, and no sample since then was older
\* than the one before it.
AfterGap == run # None /\ run.stale_at # None /\ run.ordered

\* C26: once a call has returned NO_DATA, every later call with
\* gross_fluid_rate > 0 and timestamps that do not decrease returns NO_DATA
\* too; a pump-off sample in between does not advance the last-seen
\* timestamp; the optimizer never again produces OPTIMAL, OVER_DOSING,
\* UNDER_DOSING or ERROR.
C26_StalenessAbsorbing ==
    AfterGap =>
        /\ Flowing => result.status_flag = NO_DATA
        /\ PumpOffSample => result.status_flag = PUMP_OFF
        /\ optimizer.last_data_timestamp = before.last_data_timestamp
        /\ result.status_flag \notin {OPTIMAL, OVER_DOSING, UNDER_DOSING, ERROR}

\* The third call of a run whose second call was the first NO_DATA: a
\* later sample that would count as a spike, NO_DATA again.
C26_Witness ==
    /\ AfterGap /\ calls = 3
    /\ run.stale_at[1] < data.timestamp
    /\ Flowing /\ Spike
    /\ result.status_flag = NO_DATA

\* C27: the first call on a freshly constructed optimizer, without
\* previous_rate, never returns NO_DATA or ERROR; /api/optimize makes such a
\* call for every request, so no sequence of requests yields NO_DATA or
\* ERROR, whatever the timestamps and rates.
C27_SingleSampleNeverRejected ==
    Called =>
        /\ before.last_data_timestamp = None
        /\ previous_rate = None
        /\ result.status_flag \notin {NO_DATA, ERROR}

\* The second request of a sequence, 401 s after the epoch and at a rate of
\* 7000: the dosing is computed.
C27_Witness ==
    /\ calls = 2
    /\ data.timestamp = 401 /\ data.gross_fluid_rate = F(7000)
    /\ before.last_data_timestamp = None
    /\ result.status_flag \in {OPTIMAL, OVER_DOSING, UNDER_DOSING}

\* a > k * b, exactly: both sides as integers at the smaller exponent lo.
ExactlyAbove(a, k, b, lo) ==
    a.m * 10^(a.e - lo) > k * b.m * 10^(b.e - lo)

Lower(a, b) == IF a.e < b.e THEN a.e ELSE b.e

\* The rate is more than six times the previous one.
AboveSixfold ==
    ExactlyAbove(data.gross_fluid_rate, 6, previous_rate,
                 Lower(data.gross_fluid_rate, previous_rate))

\* A sample of a flowing well that is not stale, after a previous rate
\* that is not negative or without one.
SpikeCase ==
    /\ Called /\ Flowing /\ ~Stale
    /\ previous_rate = None \/ FGe(previous_rate, Zero)

\* C28 as stated: for non-negative rates and a non-stale sample of a
\* flowing well the result is ERROR iff previous_rate > 0 and
\* gross_fluid_rate > 6 * previous_rate.
C28_ErrorIffAboveSixfold ==
    SpikeCase =>
        (result.status_flag = ERROR <=>
            /\ previous_rate # None
            /\ FGt(previous_rate, Zero)
            /\ AboveSixfold)

\* 6 * previous_rate * factor
Sixfold(factor) == FMul(FMul(F(6), previous_rate), factor)

\* C28: the result is ERROR only for a previous_rate > 0 and a rate of six
\* times the previous one or more, up to rounding, and always for a rate
\* above that; a decrease never yields ERROR, nor does a sample after a
\* rate of 0 or without a predecessor.
C28_ErrorAboutSixfold ==
    SpikeCase =>
        /\ result.status_flag = ERROR =>
               /\ previous_rate # None
               /\ FGt(previous_rate, Zero)
               /\ FGe(data.gross_fluid_rate, Sixfold(FSub(F(1), Tolerance)))
        /\ (previous_rate # None /\ FGt(previous_rate, Zero)
              /\ FGt(data.gross_fluid_rate, Sixfold(FAdd(F(1), Tolerance))))
            => result.status_flag = ERROR
        /\ (previous_rate # None /\ FLe(data.gross_fluid_rate, previous_rate))
            => result.status_flag # ERROR
        /\ (previous_rate = None \/ previous_rate = Zero)
            => result.status_flag # ERROR

\* A rate of exactly six times the previous one, 1231.41 after 205.235,
\* rejected as a spike.
C28_Witness ==
    /\ SpikeCase
    /\ previous_rate = Dec(205235, 3)
    /\ data.gross_fluid_rate = Dec(123141, 2)
    /\ ~AboveSixfold
    /\ result.status_flag = ERROR

\* The records of the run from the second on.
Successors == { i \in DOMAIN records : i > 1 }

\* Record i is a spike measured against the flow rate of record i-1.
SpikeOnPredecessor(i) ==
    is_spike(records[i].data, records[i-1].data.gross_fluid_rate)

\* Record i holds the flow rate of record i-1.
Held(i) ==
    records[i].data.gross_fluid_rate = records[i-1].data.gross_fluid_rate

\* Records i-2, i-1, i are r, k*r, k*r with r > 0 and k > 6.
HeldStep(i) ==
    /\ i > 2
    /\ Held(i)
    /\ FGt(records[i-2].data.gross_fluid_rate, Zero)
    /\ ExactlyAbove(records[i-1].data.gross_fluid_rate, 6,
                    records[i-2].data.gross_fluid_rate,
                    Lower(records[i-1].data.gross_fluid_rate,
                          records[i-2].data.gross_fluid_rate))

\* C29: in a run of a driver, record i is ERROR only if it is a spike
\* against the flow rate of record i-1, and is ERROR if it is one unless it
\* is PUMP_OFF or NO_DATA, whatever the status of record i-1; so a record
\* with the flow rate of the record before it is never ERROR, and of a
\* step r, k*r, k*r with k > 6 the third record is never ERROR.
C29_RejectedValueIsBaseline ==
    \A i \in Successors :
        /\ records[i].status_flag = ERROR => SpikeOnPredecessor(i)
        /\ (SpikeOnPredecessor(i) /\ records[i].status_flag \notin {PUMP_OFF, NO_DATA})
              => records[i].status_flag = ERROR
        /\ Held(i) => records[i].status_flag # ERROR
        /\ HeldStep(i) => records[i].status_flag # ERROR

\* The stream driver has taken 1000, 7000, 7000: the second record was
\* rejected as a spike, and the third, measured against it, was not.
C29_Witness ==
    /\ Len(records) = 3
    /\ records[1].driver = "lambda_handler"
    /\ records[1].data.gross_fluid_rate = F(1000)
    /\ records[2].data.gross_fluid_rate = F(7000)
    /\ HeldStep(3)
    /\ records[1].status_flag \notin {PUMP_OFF, NO_DATA, ERROR}
    /\ records[2].status_flag = ERROR
    /\ records[3].status_flag \notin {PUMP_OFF, NO_DATA, ERROR}
    /\ handler.previous_rate = F(7000)

\* Both optimizers have taken a call.
Paired == pair # None /\ pair.calls > 0

\* Both hold the same last-seen timestamp and last-valid water cut.
SameCarriedState ==
    /\ pair.primary.last_data_timestamp = pair.prod.last_data_timestamp
    /\ pair.primary.last_valid_water_cut = pair.prod.last_valid_water_cut

SameResults == pair.results.primary = pair.results.prod

\* Over samples whose fields are numbers the two optimizers agree.
AgreeOnNumbers ==
    Paired =>
        /\ SameCarriedState
        /\ ~IsNaN(pair.data.water_cut) => SameResults

\* C30: for a valid configuration (active_intensity >= 1,
\* chemical_density > 0, min_pump_rate <= max_pump_rate) and every sequence
\* of calls, the optimizers of lambda_function.py and lambda_function_prod.py
\* return equal results at every step and hold equal carried state after it.
C30_Equivalent ==
    Paired => SameResults /\ SameCarriedState

====
